---- MODULE Spec2Model ----
(***************************************************************************)
(* A model of the concurrency core of subdriver-docker:                    *)
(*   - TabPool            (src/app/core/browser.py)                        *)
(*   - RateLimiter        (src/app/utils/rate_limiter.py)                  *)
(*   - CacheManager       (src/app/utils/cache.py)                         *)
(*   - BrowserManager and the operations that lease sessions through it    *)
(*                        (src/app/core/browser.py, src/app/services,      *)
(*                         src/app/api/routes)                             *)
(*                                                                         *)
(* The program runs on one asyncio event loop: a coroutine runs without    *)
(* interruption between two awaits that really suspend.  Every action      *)
(* below is one such uninterrupted run of one coroutine.                   *)
(*                                                                         *)
(* Time is an integer clock.  The literals of the rate limiter (60 s       *)
(* window, 10 s ring span, 0.5 s cooldown, 100 ring slots) are scaled      *)
(* down, keeping their order; the 0.1 s added to the retry time is kept    *)
(* exactly by counting wait times in tenths of a clock unit.               *)
(***************************************************************************)
EXTENDS Integers, Sequences, FiniteSets, TLC

\* ------------------------------------------------------------- bounds
MaxTime == 2
MaxQueue == 3
\* how many times cleanup is called
MaxCleanups == 2
\* how many browser instances are started
MaxBrowsers == 2
\* how many times the wrapped function of a cached method is called for the
\* same arguments
MaxRuns == 2
\* how many parameters a mapping given to _make_key holds
MaxParams == 2
\* how many calls of _make_key are compared
MaxKeyCalls == 3
\* the last clock value of the rate limiter's runs
Horizon == 4

\* ------------------------------------------- configuration (TabPool)
max_tabs == 2
max_idle_time == 1

\* --------------------------------------- configuration (RateLimiter)
\* settings.rate_limit_delay (2.0 s) and settings.rate_limit_per_minute
rate_limit_delay == 2
rate_limit_per_minute == 2
\* the literals of check_rate_limit, scaled: the 60 s window, the
\* maxlen = 100 of global_requests, the 10 s span and the 0.5 s delay of
\* the circuit breaker
Window == 3
GlobalMaxLen == 2
OverloadSpan == 2
OverloadDelay == 1

\* the coroutines running check_rate_limit, the values of _get_domain(url)
\* and of _get_client_id(client_info)
Tasks == {1, 2}
Domains == {"a.test", "b.test"}
Clients == {"default", "c0ffee00"}

\* -------------------------------------- configuration (CacheManager)
\* settings.cache_ttl (300 s), scaled
cache_ttl == 3
\* keys and patterns are strings, modelled as sequences of characters
CacheKeys == {<<"a", "c", "b">>, <<"b", "a">>}
Patterns == {<<"a", "*">>, <<"a", "*", "b">>}
Values == {"v1", "v2"}
\* the ttl argument of set: None, or seconds
TtlArgs == {0, 1}
Absent == "absent"
\* _make_key: prefixes, and the keys and values of the parameters
Prefixes == {<<"n">>, <<"n", ":">>, <<"n", ":", "a">>}
ParamKeys == {"a", "b"}
ParamValues == {"1", "2"}
\* the number of values of the digest (2^128 for md5)
HashSpace == 256
\* what a call to the external tier can do: answer, or raise
RedisOutcomes == {"ok", "raise"}

\* the coroutines that call the pool, and the TabInfo objects it can create
Callers == {1, 2, 3}
Sessions == {1, 2, 3}
None == 0
StorageKinds == {"cookies", "localStorage", "sessionStorage"}
\* what a call into the browser host can do: return, raise an error, or
\* raise asyncio.TimeoutError (which acquire's except clause catches)
\* the request slots of the server: request r runs check_rate_limit as
\* task r and uses the pool as caller r
Requests == Tasks
Endpoints == {"navigate", "navigate_with_all"}
\* request.url of the requests served
NavUrls == {"a.test"}
HostOutcomes == {"ok", "error", "timeout"}

VARIABLES
    clock,           \* time.time()
    \* ---- TabPool
    available_tabs,  \* asyncio.Queue of TabInfo (FIFO)
    in_use_tabs,     \* set of TabInfo
    lock_owner,      \* asyncio.Lock: the coroutine inside, or None
    lock_waiters,    \* asyncio.Lock: FIFO of suspended coroutines
    tab_state,       \* per session: "none" (not created), "open", "closed"
    last_used,       \* TabInfo.last_used
    storage,         \* per session: kinds of client-side storage holding data
    next_tab,        \* number of sessions created so far
    pc,              \* per caller: position in acquire / release
    tab_info,        \* per caller: local variable tab_info of acquire / release
    url,             \* per caller: whether acquire was given a url
    ref,             \* per caller: the session its last acquire returned
    cleanup_pc,      \* position of cleanup: "idle", "cl_lock", "done"
    \* ---- history (not read by the program)
    took_stale,      \* per caller: the session taken from the queue was stale
    cleanups,        \* how many cleanup calls have completed
    cancelled,       \* callers that were cancelled inside acquire
    cleaned,         \* the sessions whose tab a cleanup has closed
    \* ---- BrowserManager and the requests that lease sessions through it
    browser,         \* BrowserManager.browser: an instance, or None
    pool_browser,    \* TabPool.browser: an instance, or None
    browser_state,   \* per instance: "none" (not started), "running", "stopped"
    next_browser,    \* number of instances started so far
    mgr_lock_owner,  \* BrowserManager.lock: the coroutine inside, or None
    mgr_lock_waiters, \* BrowserManager.lock: FIFO of suspended coroutines
    close_pc,        \* position of close_browser: "idle", "cb_lock",
                     \* "cb_cleanup", "cb_stop"
    req,             \* per caller: the operation it is serving, or "none"
    element,         \* per caller: the session whose page the element it
                     \* was returned belongs to, or None
    \* ---- history (not read by the program)
    acquired,        \* per caller: sessions its request has been handed
    rel_calls,       \* per caller: calls of release_tab its request has made
    \* ---- RateLimiter
    domain_last_request, \* dict: domain -> time of its last request
    client_requests,     \* defaultdict(deque): client -> timestamps
    global_requests,     \* deque(maxlen): timestamps
    rl_pc,           \* per task: "idle", "gate1" (line 53), "cooldown" (line 87)
    rl_now,          \* per task: local variable now
    rl_domain,       \* per task: local variable domain
    rl_client,       \* per task: local variable client_id
    rl_wake,         \* per task: when its asyncio.sleep is over
    rl_result,       \* per task: how its last call passed gate 2
    rl_wait,         \* per task: wait_time of its rejection, in tenths
    \* ---- history (not read by the program)
    permitted_log,   \* per client: how many permitted calls bear each timestamp
    \* ---- CacheManager
    memory_cache,    \* dict: key -> <<value, timestamp>>
    redis_client,    \* whether an external tier is configured
    redis_store,     \* the external tier: key -> <<bytes, time of expiry>>
    cache_returned,  \* what the last get returned
    cache_raised,    \* whether the last cache call raised to its caller
    \* ---- history (not read by the program)
    last_set,        \* key -> <<value, time, ttl>> of its last set, until
                     \* a delete or clear_pattern that aims at the key
    key_calls,       \* the calls of _make_key made so far: <<prefix, params, key>>
    \* ---- the cached decorator
    wr_pc,           \* per task: "idle", or "func" (inside the wrapped function)
    wr_args,         \* per task: the arguments of its call
    \* ---- history (not read by the program)
    wr_runs,         \* per arguments: when the wrapped function was called
    \* ---- the navigate endpoints
    nav_ep,          \* per request slot: the endpoint being served, or "none"
    nav_url,         \* per request slot: request.url
    \* ---- history (not read by the program)
    nav_log          \* per request slot: what the handler has done so far

shutdownVars == <<cleanup_pc, cleanups, cleaned>>

cancelVars == <<cancelled>>

mgrVars == <<browser, pool_browser, browser_state, next_browser,
             mgr_lock_owner, mgr_lock_waiters, close_pc, req, element,
             acquired, rel_calls>>

poolVars == <<available_tabs, in_use_tabs, lock_owner, lock_waiters, tab_state,
              last_used, storage, next_tab, pc, tab_info, url, ref, took_stale,
              shutdownVars, cancelVars, mgrVars>>

rlVars == <<domain_last_request, client_requests, global_requests, rl_pc,
            rl_now, rl_domain, rl_client, rl_wake, rl_result, rl_wait,
            permitted_log>>

keyVars == <<key_calls>>

wrVars == <<wr_pc, wr_args, wr_runs>>

cacheVars == <<memory_cache, redis_client, redis_store, cache_returned,
               cache_raised, last_set, keyVars, wrVars>>

navVars == <<nav_ep, nav_url, nav_log>>

vars == <<clock, poolVars, rlVars, cacheVars, navVars>>

\* ------------------------------------------------------------ helpers
Range(s) == {s[i] : i \in 1..Len(s)}

\* ----------------------------------------------------------- TabPool
InitPool ==
    /\ available_tabs = <<>>
    /\ in_use_tabs = {}
    /\ lock_owner = None
    /\ lock_waiters = <<>>
    /\ tab_state = [s \in Sessions |-> "none"]
    /\ last_used = [s \in Sessions |-> 0]
    /\ storage = [s \in Sessions |-> {}]
    /\ next_tab = 0
    /\ cancelled = {}
    /\ pc = [p \in Callers |-> "idle"]
    /\ tab_info = [p \in Callers |-> None]
    /\ url = [p \in Callers |-> FALSE]
    /\ ref = [p \in Callers |-> None]
    /\ took_stale = [p \in Callers |-> FALSE]
    /\ cleanup_pc = "idle"
    /\ cleanups = 0
    /\ cleaned = {}

\* a lock that excludes nobody
EnterLockBroken(p) ==
    /\ lock_owner' = p
    /\ lock_waiters' = lock_waiters

\* async with self.lock, entering: taken at once when free, else the
\* caller is appended to the lock's FIFO of waiters
EnterLock(p) ==
    IF lock_owner = None
    THEN /\ lock_owner' = p
         /\ lock_waiters' = lock_waiters
    ELSE /\ lock_owner' = lock_owner
         /\ lock_waiters' = Append(lock_waiters, p)

\* async with self.lock, leaving: the first waiter, if any, is woken and
\* owns the lock next
LeaveLock ==
    IF lock_waiters = <<>>
    THEN /\ lock_owner' = None
         /\ lock_waiters' = lock_waiters
    ELSE /\ lock_owner' = Head(lock_waiters)
         /\ lock_waiters' = Tail(lock_waiters)

KeepLock == UNCHANGED <<lock_owner, lock_waiters>>

\* line 52: time.time() - tab_info.last_used > self.max_idle_time
IsStale(s) == clock - last_used[s] > max_idle_time

\* line 64: len(self.in_use_tabs) < self.max_tabs
\* a capacity check that lets one session too many through
BelowMaximumLax == Cardinality(in_use_tabs) <= max_tabs

BelowMaximum == Cardinality(in_use_tabs) < max_tabs

\* a get that hands out the head of the queue and leaves it there
QueueAfterPeek(q) == q

\* what self.available_tabs.get() leaves in the queue
QueueAfterGet(q) == Tail(q)

\* acquire moves on to the await at `label` with local tab_info = s
Goto(p, label, s) ==
    /\ pc' = [pc EXCEPT ![p] = label]
    /\ tab_info' = [tab_info EXCEPT ![p] = s]
    /\ KeepLock
    /\ UNCHANGED <<last_used, in_use_tabs, ref, url, storage>>

\* lines 73-77: mark the session used, add it to in_use_tabs, return it
\* (leaving the lock).  The caller then drives a page in the tab, which
\* sets a cookie and writes both Web Storage areas.
Lease(p, s) ==
    /\ last_used' = [last_used EXCEPT ![s] = clock]
    /\ in_use_tabs' = in_use_tabs \cup {s}
    /\ ref' = [ref EXCEPT ![p] = s]
    /\ tab_info' = [tab_info EXCEPT ![p] = None]
    /\ pc' = [pc EXCEPT ![p] = "holding"]
    /\ url' = [url EXCEPT ![p] = FALSE]
    /\ storage' = [storage EXCEPT ![s] = StorageKinds]
    /\ LeaveLock

\* The TabInfo objects that nothing refers to any more once caller p drops
\* its local tab_info: Python frees them, and the fields of a freed object
\* are no part of the state (its tab, unless closed, stays open in the
\* browser: tab_state keeps that).
Freed(p) ==
    LET s == tab_info[p] IN
    IF /\ s # None
       /\ s \notin Range(available_tabs)
       /\ s \notin in_use_tabs
       /\ \A q \in Callers : ref[q] # s
       /\ \A q \in Callers \ {p} : tab_info[q] # s
    THEN {s} ELSE {}

DropTabInfo(p) ==
    /\ tab_info' = [tab_info EXCEPT ![p] = None]
    /\ last_used' = [s \in Sessions |-> IF s \in Freed(p) THEN 0 ELSE last_used[s]]
    /\ storage' = [s \in Sessions |-> IF s \in Freed(p) THEN {} ELSE storage[s]]

\* an exception leaves acquire through `async with`: the lock is left,
\* nothing else is undone
Raise(p) ==
    /\ pc' = [pc EXCEPT ![p] = "idle"]
    /\ url' = [url EXCEPT ![p] = FALSE]
    /\ DropTabInfo(p)
    /\ LeaveLock
    /\ UNCHANGED <<in_use_tabs, ref>>

\* lines 62-68: the except clause chooses between creating and waiting;
\* either way tab_info is assigned anew before it is read again
ExceptTimeout(p) ==
    /\ pc' = [pc EXCEPT ![p] = IF BelowMaximum THEN "acq_create_exc" ELSE "acq_wait"]
    /\ DropTabInfo(p)
    /\ KeepLock
    /\ UNCHANGED <<in_use_tabs, ref, url>>

\* line 41, 43: acquire(url) is entered and asks for the lock
AcquireEnter(p, u) ==
    /\ pc' = [pc EXCEPT ![p] = "acq_lock"]
    /\ url' = [url EXCEPT ![p] = u]
    /\ ref' = [ref EXCEPT ![p] = None]
    /\ EnterLock(p)
    /\ UNCHANGED <<clock, available_tabs, in_use_tabs, tab_state, last_used,
                   storage, next_tab, tab_info, took_stale>>

\* line 41: acquire(url) is called
AcqCall(p, u) ==
    /\ pc[p] = "idle"
    /\ AcquireEnter(p, u)

\* lines 45-60: inside the lock, wait_for(available_tabs.get(), 0.1)
AcqGet(p) ==
    /\ pc[p] = "acq_lock"
    /\ lock_owner = p
    /\ IF available_tabs # <<>>
       THEN LET s == Head(available_tabs) IN
            /\ available_tabs' = QueueAfterGet(available_tabs)
            /\ took_stale' = [took_stale EXCEPT ![p] =
                                 clock - last_used[s] > max_idle_time]
            /\ IF IsStale(s) THEN Goto(p, "acq_close", s)
               ELSE IF url[p] THEN Goto(p, "acq_nav_try", s)
               ELSE Lease(p, s)
       ELSE \* the queue stays empty for 0.1 s: asyncio.TimeoutError
            /\ ExceptTimeout(p)
            /\ UNCHANGED <<available_tabs, took_stale>>
    /\ UNCHANGED <<clock, tab_state, next_tab>>

\* line 54: await tab_info.tab.close() of the stale session
AcqClose(p, o) ==
    /\ pc[p] = "acq_close"
    /\ CASE o = "ok" ->
              /\ tab_state' = [tab_state EXCEPT ![tab_info[p]] = "closed"]
              /\ pc' = [pc EXCEPT ![p] = "acq_create_try"]
              /\ DropTabInfo(p)
              /\ KeepLock
              /\ UNCHANGED <<in_use_tabs, ref, url>>
         [] o = "error" ->
              /\ Raise(p)
              /\ UNCHANGED tab_state
         [] o = "timeout" ->
              /\ ExceptTimeout(p)
              /\ UNCHANGED tab_state
    /\ UNCHANGED <<clock, available_tabs, next_tab, took_stale>>

\* lines 97-105: _create_tab, the host returns a new tab, which acquire
\* goes on to return
NewTab(p) ==
    /\ next_tab + 1 \in Sessions
    /\ next_tab' = next_tab + 1
    /\ tab_state' = [tab_state EXCEPT ![next_tab + 1] = "open"]
    /\ took_stale' = [took_stale EXCEPT ![p] = FALSE]
    /\ Lease(p, next_tab + 1)

\* line 55: await self._create_tab(url) inside the try
AcqCreateTry(p, o) ==
    /\ pc[p] = "acq_create_try"
    /\ CASE o = "ok" -> NewTab(p)
         [] o = "error" ->
              /\ Raise(p)
              /\ UNCHANGED <<next_tab, tab_state, took_stale>>
         [] o = "timeout" ->
              /\ ExceptTimeout(p)
              /\ UNCHANGED <<next_tab, tab_state, took_stale>>
    /\ UNCHANGED <<clock, available_tabs>>

\* lines 58-60: await tab_info.tab.get(url) on the reused session
AcqNavTry(p, o) ==
    /\ pc[p] = "acq_nav_try"
    /\ CASE o = "ok" -> Lease(p, tab_info[p])
         [] o = "error" -> Raise(p)
         [] o = "timeout" -> ExceptTimeout(p)
    /\ UNCHANGED <<clock, available_tabs, tab_state, next_tab, took_stale>>

\* line 65: await self._create_tab(url) inside the except clause; any
\* exception now leaves acquire
AcqCreateExc(p, o) ==
    /\ pc[p] = "acq_create_exc"
    /\ CASE o = "ok" -> NewTab(p)
         [] o \in {"error", "timeout"} ->
              /\ Raise(p)
              /\ UNCHANGED <<next_tab, tab_state, took_stale>>
    /\ UNCHANGED <<clock, available_tabs>>

\* a cancellation that leaves the cancelled caller among the lock's waiters
WaitersWith(q, p) == q

\* line 43, cancelled while waiting for the lock: the lock forgets the
\* waiter
WaitersWithout(q, p) == SelectSeq(q, LAMBDA w : w # p)

\* CancelledError is raised in a caller suspended at line 43 (waiting for
\* the lock), lines 46-49 (the timed get on an empty queue) or line 68 (the
\* untimed get).  No clause of acquire catches it; `async with` leaves the
\* lock when the caller owns it.
Cancel(p) ==
    /\ pc[p] \in {"acq_lock", "acq_wait"}
    /\ pc' = [pc EXCEPT ![p] = "idle"]
    /\ cancelled' = cancelled \cup {p}
    /\ url' = [url EXCEPT ![p] = FALSE]
    /\ DropTabInfo(p)
    /\ IF lock_owner = p
       THEN LeaveLock
       ELSE /\ lock_owner' = lock_owner
            /\ lock_waiters' = WaitersWithout(lock_waiters, p)
    /\ UNCHANGED <<clock, available_tabs, in_use_tabs, tab_state, next_tab,
                   ref, took_stale>>

\* lines 68-71: await self.available_tabs.get() with no timeout, still
\* inside the lock
AcqWait(p) ==
    /\ pc[p] = "acq_wait"
    /\ available_tabs # <<>>
    /\ LET s == Head(available_tabs) IN
       /\ available_tabs' = QueueAfterGet(available_tabs)
       /\ took_stale' = [took_stale EXCEPT ![p] =
                            clock - last_used[s] > max_idle_time]
       /\ IF url[p] THEN Goto(p, "acq_nav_exc", s) ELSE Lease(p, s)
    /\ UNCHANGED <<clock, tab_state, next_tab>>

\* line 70: await tab_info.tab.get(url) inside the except clause
AcqNavExc(p, o) ==
    /\ pc[p] = "acq_nav_exc"
    /\ CASE o = "ok" -> Lease(p, tab_info[p])
         [] o \in {"error", "timeout"} -> Raise(p)
    /\ UNCHANGED <<clock, available_tabs, tab_state, next_tab, took_stale>>

\* line 79, 81: release(tab_info) is called and asks for the lock
ReleaseEnter(p) ==
    /\ pc' = [pc EXCEPT ![p] = "rel_lock"]
    /\ tab_info' = [tab_info EXCEPT ![p] = ref[p]]
    /\ took_stale' = [took_stale EXCEPT ![p] = FALSE]
    /\ EnterLock(p)
    /\ UNCHANGED <<clock, available_tabs, in_use_tabs, tab_state, last_used,
                   storage, next_tab, url, ref>>

\* the caller releases the session it holds
RelCall(p) ==
    /\ pc[p] = "holding"
    /\ ReleaseEnter(p)

\* the caller releases once more the session it has released already
RelAgain(p) ==
    /\ pc[p] = "idle"
    /\ ref[p] # None
    /\ Len(available_tabs) < MaxQueue
    /\ ReleaseEnter(p)

\* lines 82-86: inside the lock, stamp the session and take it out of
\* in_use_tabs if it is there
RelStart(p) ==
    /\ pc[p] = "rel_lock"
    /\ lock_owner = p
    /\ last_used' = [last_used EXCEPT ![tab_info[p]] = clock]
    /\ in_use_tabs' = in_use_tabs \ {tab_info[p]}
    /\ pc' = [pc EXCEPT ![p] = "rel_eval1"]
    /\ KeepLock
    /\ UNCHANGED <<clock, available_tabs, tab_state, storage, next_tab,
                   tab_info, url, ref, took_stale>>

\* line 95: await self.available_tabs.put(tab_info), then leave the lock
\* and return; `keep` is whether the caller keeps its reference to the
\* session it has given back
RelPut(p, keep) ==
    /\ available_tabs' = Append(available_tabs, tab_info[p])
    /\ pc' = [pc EXCEPT ![p] = "idle"]
    /\ tab_info' = [tab_info EXCEPT ![p] = None]
    /\ ref' = [ref EXCEPT ![p] = IF keep THEN @ ELSE None]
    /\ LeaveLock

\* a release that lets the failure of a clearing script escape: no put
SanitizeRaises(p, keep) ==
    /\ pc' = [pc EXCEPT ![p] = "idle"]
    /\ tab_info' = [tab_info EXCEPT ![p] = None]
    /\ ref' = [ref EXCEPT ![p] = IF keep THEN @ ELSE None]
    /\ LeaveLock
    /\ UNCHANGED available_tabs

\* lines 92-95: `except: pass` swallows the failure of a clearing script
\* and release goes on to the put
SanitizeFailed(p, keep) == RelPut(p, keep)

\* what the scripts of release clear (lines 90, 91)
Cleared == {"localStorage", "sessionStorage"}

\* line 90: await tab.evaluate("window.localStorage.clear()"); a closed
\* tab cannot run a script
RelEval1(p, o, keep) ==
    /\ pc[p] = "rel_eval1"
    /\ CASE o = "ok" ->
              /\ tab_state[tab_info[p]] = "open"
              /\ storage' = [storage EXCEPT ![tab_info[p]] =
                                @ \ ({"localStorage"} \cap Cleared)]
              /\ pc' = [pc EXCEPT ![p] = "rel_eval2"]
              /\ KeepLock
              /\ UNCHANGED <<available_tabs, tab_info, ref>>
         [] o = "error" ->
              /\ SanitizeFailed(p, keep)
              /\ UNCHANGED storage
    /\ UNCHANGED <<clock, in_use_tabs, tab_state, last_used, next_tab, url,
                   took_stale>>

\* line 91: await tab.evaluate("window.sessionStorage.clear()")
RelEval2(p, o, keep) ==
    /\ pc[p] = "rel_eval2"
    /\ CASE o = "ok" ->
              /\ tab_state[tab_info[p]] = "open"
              /\ storage' = [storage EXCEPT ![tab_info[p]] =
                                @ \ ({"sessionStorage"} \cap Cleared)]
              /\ RelPut(p, keep)
         [] o = "error" ->
              /\ SanitizeFailed(p, keep)
              /\ UNCHANGED storage
    /\ UNCHANGED <<clock, in_use_tabs, tab_state, last_used, next_tab, url,
                   took_stale>>

\* the coroutine that runs close_browser and with it cleanup
Closer == Cardinality(Callers) + 1

\* lines 107, 109: cleanup is called and asks for the lock
ClCall ==
    /\ cleanup_pc \in {"idle", "done"}
    /\ cleanups < MaxCleanups
    /\ cleanup_pc' = "cl_lock"
    /\ EnterLock(Closer)
    /\ UNCHANGED <<clock, available_tabs, in_use_tabs, tab_state, last_used,
                   storage, next_tab, pc, tab_info, url, ref, took_stale,
                   cleanups, cleaned>>

\* a loop over the queue that stops one short of its end
DrainedButLast(q) == IF q = <<>> THEN q ELSE <<q[Len(q)]>>

\* lines 118-123: what the loop over the queue leaves in it
Drained(q) == <<>>

\* the TabInfo objects that nothing refers to once the queue is drained
Dropped ==
    {s \in Range(available_tabs) :
        s \notin in_use_tabs /\ \A p \in Callers : ref[p] # s /\ tab_info[p] # s}

\* lines 110-123: inside the lock, close every tab of in_use_tabs and of
\* the queue, emptying the queue; a close that raises is passed over
\* (`unclosed` are the tabs whose close raises); then leave the lock
ClRun(unclosed) ==
    /\ cleanup_pc = "cl_lock"
    /\ lock_owner = Closer
    /\ unclosed \subseteq {s \in in_use_tabs \cup Range(available_tabs) :
                               tab_state[s] = "open"}
    /\ tab_state' = [s \in Sessions |->
                        IF /\ s \in in_use_tabs \cup Range(available_tabs)
                           /\ s \notin unclosed
                        THEN "closed" ELSE tab_state[s]]
    /\ available_tabs' = Drained(available_tabs)
    /\ last_used' = [s \in Sessions |-> IF s \in Dropped THEN 0 ELSE last_used[s]]
    /\ storage' = [s \in Sessions |-> IF s \in Dropped THEN {} ELSE storage[s]]
    /\ cleanup_pc' = "done"
    /\ cleanups' = cleanups + 1
    /\ cleaned' = cleaned \cup {s \in in_use_tabs \cup Range(available_tabs) :
                                  tab_state[s] = "open" /\ s \notin unclosed}
    /\ LeaveLock
    /\ UNCHANGED <<clock, in_use_tabs, next_tab, pc, tab_info, url, ref,
                   took_stale>>

\* time passes
Tick ==
    /\ clock < MaxTime
    /\ clock' = clock + 1

TickPool == Tick /\ UNCHANGED <<poolVars, rlVars, cacheVars, navVars>>

\* -------------------------------------------------------- RateLimiter
InitLimiter ==
    /\ domain_last_request = [d \in {} |-> 0]
    /\ client_requests = [c \in Clients |-> <<>>]
    /\ global_requests = <<>>
    /\ rl_pc = [t \in Tasks |-> "idle"]
    /\ rl_now = [t \in Tasks |-> 0]
    /\ rl_domain = [t \in Tasks |-> "a.test"]
    /\ rl_client = [t \in Tasks |-> "default"]
    /\ rl_wake = [t \in Tasks |-> 0]
    /\ rl_result = [t \in Tasks |-> "none"]
    /\ rl_wait = [t \in Tasks |-> 0]
    /\ permitted_log = [c \in Clients |-> [n \in 0..Horizon |-> 0]]

\* line 55: self.domain_last_request[domain] = time.time()
LastRequestSet(d) ==
    [x \in (DOMAIN domain_last_request) \cup {d} |->
        IF x = d THEN clock ELSE domain_last_request[x]]

\* lines 62-63: popleft while the front is older than cutoff_time
RECURSIVE Pruned(_, _)
Pruned(q, cutoff_time) ==
    IF q # <<>> /\ Head(q) < cutoff_time
    THEN Pruned(Tail(q), cutoff_time)
    ELSE q

\* a limit test that lets one request too many through
LimitExceededLax(q) == Len(q) > rate_limit_per_minute

\* line 66: len(client_queue) >= self.settings.rate_limit_per_minute
LimitExceeded(q) == Len(q) >= rate_limit_per_minute

\* a wait time that ignores the age of the oldest request
WaitTimeFlat(q, now) == 10 * Window + 1

\* line 69: wait_time = 60 - (now - oldest_request) + 0.1, in tenths
WaitTime(q, now) == 10 * (Window - (now - q[1])) + 1

\* an append to a deque that has no maxlen
RingGrows(g, now) == Append(g, now)

\* line 80: append to a deque with maxlen, which drops its oldest entry
\* when full
RingAppend(g, now) ==
    IF Len(g) = GlobalMaxLen THEN Append(Tail(g), now) ELSE Append(g, now)

\* lines 83-85: the ring is full and spans less than the overload span
Overloaded(g, now) == Len(g) = GlobalMaxLen /\ now - g[1] < OverloadSpan

\* the task's call is over: its locals are gone
Finish(t, result, wait) ==
    /\ rl_pc' = [rl_pc EXCEPT ![t] = "idle"]
    /\ rl_now' = [rl_now EXCEPT ![t] = 0]
    /\ rl_domain' = [rl_domain EXCEPT ![t] = "a.test"]
    /\ rl_client' = [rl_client EXCEPT ![t] = "default"]
    /\ rl_wake' = [rl_wake EXCEPT ![t] = 0]
    /\ rl_result' = [rl_result EXCEPT ![t] = result]
    /\ rl_wait' = [rl_wait EXCEPT ![t] = wait]

\* lines 55-87, run without suspension once gate 1 is passed: stamp the
\* domain with the time it is now, prune and count the client's window
\* against `now` (read at line 46), then reject or record the request
Gate2(t, d, c, now) ==
    LET q == Pruned(client_requests[c], now - Window)
        rejects == LimitExceeded(q) /\ WaitTime(q, now) > 0
        g == RingAppend(global_requests, now)
    IN
    /\ domain_last_request' = LastRequestSet(d)
    /\ IF rejects
       THEN /\ client_requests' = [client_requests EXCEPT ![c] = q]
            /\ Finish(t, "rejected", WaitTime(q, now))
            /\ UNCHANGED <<global_requests, permitted_log>>
       ELSE /\ client_requests' = [client_requests EXCEPT ![c] = Append(q, now)]
            /\ global_requests' = g
            /\ permitted_log' = [permitted_log EXCEPT ![c][now] = @ + 1]
            /\ IF Overloaded(g, now)
               THEN /\ rl_pc' = [rl_pc EXCEPT ![t] = "cooldown"]
                    /\ rl_now' = [rl_now EXCEPT ![t] = 0]
                    /\ rl_domain' = [rl_domain EXCEPT ![t] = "a.test"]
                    /\ rl_client' = [rl_client EXCEPT ![t] = "default"]
                    /\ rl_wake' = [rl_wake EXCEPT ![t] = clock + OverloadDelay]
                    /\ rl_result' = [rl_result EXCEPT ![t] = "permitted"]
                    /\ rl_wait' = [rl_wait EXCEPT ![t] = 0]
               ELSE Finish(t, "permitted", 0)

\* a gate 1 that never makes a call wait
MustWaitNever(d, now) == FALSE

\* lines 49-51: the domain was requested less than rate_limit_delay ago
MustWait(d, now) ==
    /\ d \in DOMAIN domain_last_request
    /\ now - domain_last_request[d] < rate_limit_delay

\* lines 39-53: check_rate_limit(url, client_info) is called; now is read;
\* gate 1 either suspends the task in asyncio.sleep or lets it run on
RL_Call(t, d, c) ==
    /\ rl_pc[t] = "idle"
    /\ IF MustWait(d, clock)
       THEN /\ rl_pc' = [rl_pc EXCEPT ![t] = "gate1"]
            /\ rl_now' = [rl_now EXCEPT ![t] = clock]
            /\ rl_domain' = [rl_domain EXCEPT ![t] = d]
            /\ rl_client' = [rl_client EXCEPT ![t] = c]
            /\ rl_wake' = [rl_wake EXCEPT ![t] =
                              domain_last_request[d] + rate_limit_delay]
            /\ rl_result' = [rl_result EXCEPT ![t] = "none"]
            /\ rl_wait' = [rl_wait EXCEPT ![t] = 0]
            /\ UNCHANGED <<domain_last_request, client_requests,
                           global_requests, permitted_log>>
       ELSE Gate2(t, d, c, clock)
    /\ UNCHANGED <<clock, poolVars, cacheVars>>

\* a sleep of gate 1 that ends only once no other call is in progress
RL_Wake1WhenAlone(t) ==
    /\ \A u \in Tasks \ {t} : rl_pc[u] = "idle"
    /\ rl_pc[t] = "gate1"
    /\ clock >= rl_wake[t]
    /\ Gate2(t, rl_domain[t], rl_client[t], rl_now[t])
    /\ UNCHANGED <<clock, poolVars, cacheVars>>

\* line 53 returns: the sleep of gate 1 is over (the event loop wakes the
\* task then or later)
RL_Wake1(t) ==
    /\ rl_pc[t] = "gate1"
    /\ clock >= rl_wake[t]
    /\ Gate2(t, rl_domain[t], rl_client[t], rl_now[t])
    /\ UNCHANGED <<clock, poolVars, cacheVars>>

\* line 87 returns: the circuit breaker's delay is over, the call returns
RL_Wake3(t) ==
    /\ rl_pc[t] = "cooldown"
    /\ clock >= rl_wake[t]
    /\ rl_pc' = [rl_pc EXCEPT ![t] = "idle"]
    /\ rl_wake' = [rl_wake EXCEPT ![t] = 0]
    /\ UNCHANGED <<clock, poolVars, cacheVars, domain_last_request, client_requests,
                   global_requests, rl_now, rl_domain, rl_client, rl_result,
                   rl_wait, permitted_log>>

\* time passes
TickLimiter ==
    /\ clock < Horizon
    /\ clock' = clock + 1
    /\ UNCHANGED <<poolVars, rlVars, cacheVars>>

\* time passes beyond the last moment calls are made at, for as long as a
\* task is asleep
TickAsleep ==
    /\ clock >= Horizon
    /\ \E t \in Tasks : rl_pc[t] # "idle" /\ clock < rl_wake[t]
    /\ clock' = clock + 1
    /\ UNCHANGED <<poolVars, rlVars, cacheVars>>

\* ------------------------------------------------------- CacheManager
\* lines 12-22, but for redis_client, which the configuration decides
InitCache ==
    /\ memory_cache = [k \in {} |-> 0]
    /\ redis_store = [k \in {} |-> 0]
    /\ cache_returned = Absent
    /\ cache_raised = FALSE
    /\ last_set = [k \in {} |-> 0]
    /\ key_calls = {}

\* d[k] = v and del d[k] of a dict
DictSet(d, k, v) == [x \in (DOMAIN d) \cup {k} |-> IF x = k THEN v ELSE d[x]]
DictDel(d, ks) == [x \in (DOMAIN d) \ ks |-> d[x]]

\* ---- _make_key
\* code points, as far as their order and their difference matter
Code(ch) ==
    CASE ch = "1" -> 1 [] ch = "2" -> 2 [] ch = "," -> 3 [] ch = ":" -> 4
      [] ch = "a" -> 5 [] ch = "b" -> 6 [] ch = "n" -> 7 [] ch = "{" -> 8
      [] ch = "}" -> 9

\* the parameter mappings: dicts, which keep the order of insertion, as
\* sequences of <<key, value>> with no key twice
Mappings ==
    {m \in UNION {[1..n -> ParamKeys \X ParamValues] : n \in 0..MaxParams} :
        \A i, j \in 1..Len(m) : i # j => m[i][1] # m[j][1]}

\* a dump that writes the items in the order of insertion
ItemsAsInserted(m) == m

\* line 26, sort_keys=True: the items in the order of their keys
RECURSIVE ItemsSorted(_)
ItemsSorted(m) ==
    IF m = <<>> THEN <<>>
    ELSE LET i == CHOOSE i \in 1..Len(m) :
                      \A j \in 1..Len(m) : Code(m[i][1]) <= Code(m[j][1])
         IN  <<m[i]>> \o ItemsSorted([j \in 1..(Len(m) - 1) |->
                                        IF j < i THEN m[j] ELSE m[j + 1]])

\* line 26, json.dumps: the text of the items, one character per element
RECURSIVE ItemsText(_)
ItemsText(items) ==
    IF items = <<>> THEN <<>>
    ELSE <<items[1][1], ":", items[1][2]>>
            \o (IF Len(items) > 1 THEN <<",">> ELSE <<>>)
            \o ItemsText(Tail(items))

JsonDumps(m) == <<"{">> \o ItemsText(ItemsSorted(m)) \o <<"}">>

\* line 27, hashlib.md5(...).hexdigest(): a digest of fixed length in
\* hexadecimal digits, which depends on every character and its place
\* (and, as any digest, gives some texts the same value)
RECURSIVE Checksum(_, _)
Checksum(text, i) ==
    IF i > Len(text) THEN 0
    ELSE (i * Code(text[i]) + Checksum(text, i + 1)) % HashSpace

HexDigits == <<"0", "1", "2", "3", "4", "5", "6", "7",
               "8", "9", "a", "b", "c", "d", "e", "f">>

HexDigest(text) ==
    LET n == Checksum(text, 1)
    IN  <<HexDigits[(n \div 16) + 1], HexDigits[(n % 16) + 1]>>

\* lines 24-28: _make_key(prefix, params)
MakeKey(prefix, m) == prefix \o <<":">> \o HexDigest(JsonDumps(m))

\* _make_key is called and returns
MakeKeyCall(prefix, m) ==
    /\ Cardinality(key_calls) < MaxKeyCalls
    /\ key_calls' = key_calls \cup {<<prefix, m, MakeKey(prefix, m)>>}
    /\ UNCHANGED <<clock, poolVars, rlVars, memory_cache, redis_client,
                   redis_store, cache_returned, cache_raised, last_set>>

\* pickle.dumps and pickle.loads
Pickled(v) == <<"pickle", v>>
Unpickled(bytes) == bytes[2]

\* line 53: ttl or self.settings.cache_ttl
EffectiveTtl(ttl) == IF ttl # None THEN ttl ELSE cache_ttl

\* redis glob matching of a key against a pattern of characters and '*'
RECURSIVE GlobMatch(_, _)
GlobMatch(pattern, k) ==
    IF pattern = <<>> THEN k = <<>>
    ELSE IF Head(pattern) = "*"
         THEN \/ GlobMatch(Tail(pattern), k)
              \/ k # <<>> /\ GlobMatch(pattern, Tail(k))
         ELSE /\ k # <<>>
              /\ Head(k) = Head(pattern)
              /\ GlobMatch(Tail(pattern), Tail(k))

\* line 99: pattern.replace('*', '')
Stripped(pattern) == SelectSeq(pattern, LAMBDA ch : ch # "*")

\* line 99: s in k, for strings
IsSubstring(s, k) ==
    \E i \in 0..(Len(k) - Len(s)) : SubSeq(k, i + 1, i + Len(s)) = s

\* a get that lets the failure of the external tier reach its caller
GetRaises(k) ==
    /\ cache_raised' = TRUE
    /\ UNCHANGED <<memory_cache, cache_returned>>

\* lines 42-49: the memory tier of get
LocalGet(k) ==
    /\ cache_raised' = FALSE
    /\ IF k \in DOMAIN memory_cache
       THEN IF clock - memory_cache[k][2] < cache_ttl
            THEN /\ cache_returned' = memory_cache[k][1]
                 /\ UNCHANGED memory_cache
            ELSE /\ memory_cache' = DictDel(memory_cache, {k})
                 /\ cache_returned' = Absent
       ELSE /\ cache_returned' = Absent
            /\ UNCHANGED memory_cache

\* lines 38-39: `except: pass`, and get goes on to the memory tier
GetFailed(k) == LocalGet(k)

\* lines 30-49: get(key)
CacheGet(k, o) ==
    /\ o = "raise" => redis_client
    /\ IF redis_client /\ o = "raise" THEN GetFailed(k)
       ELSE IF redis_client /\ k \in DOMAIN redis_store
       THEN /\ cache_returned' = Unpickled(redis_store[k][1])
            /\ cache_raised' = FALSE
            /\ UNCHANGED memory_cache
       ELSE LocalGet(k)
    /\ UNCHANGED <<clock, poolVars, rlVars, keyVars, redis_client, redis_store, last_set>>

\* line 67: the memory tier of set
LocalSet(k, v) ==
    /\ cache_raised' = FALSE
    /\ memory_cache' = DictSet(memory_cache, k, <<v, clock>>)
    /\ cache_returned' = Absent

\* lines 63-64: `except: pass`
SetFailed(k, v) == LocalSet(k, v)

\* lines 51-67: set(key, value, ttl)
CacheSet(k, v, ttl, o) ==
    /\ o = "raise" => redis_client
    /\ IF redis_client /\ o = "raise"
       THEN /\ SetFailed(k, v)
            /\ UNCHANGED redis_store
       ELSE /\ LocalSet(k, v)
            /\ redis_store' =
                  IF redis_client
                  THEN DictSet(redis_store, k,
                               <<Pickled(v), clock + EffectiveTtl(ttl)>>)
                  ELSE redis_store
    /\ last_set' = DictSet(last_set, k, <<v, clock, EffectiveTtl(ttl)>>)
    /\ UNCHANGED <<clock, poolVars, rlVars, keyVars, redis_client>>

\* lines 77-78: the memory tier of delete
LocalDelete(k) ==
    /\ cache_raised' = FALSE
    /\ memory_cache' = DictDel(memory_cache, {k})
    /\ cache_returned' = Absent

\* lines 74-75: `except: pass`
DeleteFailed(k) == LocalDelete(k)

\* lines 69-78: delete(key)
CacheDelete(k, o) ==
    /\ o = "raise" => redis_client
    /\ IF redis_client /\ o = "raise"
       THEN /\ DeleteFailed(k)
            /\ UNCHANGED redis_store
       ELSE /\ LocalDelete(k)
            /\ redis_store' = IF redis_client THEN DictDel(redis_store, {k})
                                              ELSE redis_store
    /\ last_set' = DictDel(last_set, {k})
    /\ UNCHANGED <<clock, poolVars, rlVars, keyVars, redis_client>>

\* lines 96-102: the memory tier of clear_pattern
LocalClear(pattern) ==
    /\ cache_raised' = FALSE
    /\ memory_cache' =
          DictDel(memory_cache,
                  {k \in DOMAIN memory_cache : IsSubstring(Stripped(pattern), k)})
    /\ cache_returned' = Absent

\* lines 93-94: `except: pass`
ClearFailed(pattern) == LocalClear(pattern)

\* lines 80-102: clear_pattern(pattern); the scan finds the keys of the
\* external tier that match the pattern and they are deleted there
CacheClearPattern(pattern, o) ==
    /\ o = "raise" => redis_client
    /\ IF redis_client /\ o = "raise"
       THEN /\ ClearFailed(pattern)
            /\ UNCHANGED redis_store
       ELSE /\ LocalClear(pattern)
            /\ redis_store' =
                  IF redis_client
                  THEN DictDel(redis_store,
                               {k \in DOMAIN redis_store : GlobMatch(pattern, k)})
                  ELSE redis_store
    /\ last_set' =
          DictDel(last_set,
                  {k \in DOMAIN last_set :
                      GlobMatch(pattern, k) \/ IsSubstring(Stripped(pattern), k)})
    /\ UNCHANGED <<clock, poolVars, rlVars, keyVars, redis_client>>

\* ---- the cached decorator
\* the arguments the wrapped method is called with, and what it returns
\* (a value, or None)
WrapperArgs == {<<>>, <<<<"a", "1">>>>}
WrapperResults == {"v1", Absent}

InitWrapper ==
    /\ wr_pc = [t \in Tasks |-> "idle"]
    /\ wr_args = [t \in Tasks |-> <<>>]
    /\ wr_runs = [a \in WrapperArgs |-> <<>>]

\* lines 115-118: cache._make_key(prefix, {"args": args, "kwargs": kwargs})
WrapperKey(a) == MakeKey(<<"n">>, a)

\* lines 108-126: the wrapper is called: it makes the key and awaits
\* cache.get; a value that is not None is returned, else the wrapped
\* function is called and awaited
WrCall(t, a, o) ==
    /\ wr_pc[t] = "idle"
    /\ CacheGet(WrapperKey(a), o)
    /\ IF cache_returned' # Absent
       THEN UNCHANGED <<wr_pc, wr_args, wr_runs>>
       ELSE /\ Len(wr_runs[a]) < MaxRuns
            /\ wr_pc' = [wr_pc EXCEPT ![t] = "func"]
            /\ wr_args' = [wr_args EXCEPT ![t] = a]
            /\ wr_runs' = [wr_runs EXCEPT ![a] = Append(@, clock)]

\* lines 126-129: the wrapped function returns; its result is stored with
\* the decorator's ttl (None here) and returned
WrReturn(t, v, o) ==
    /\ wr_pc[t] = "func"
    /\ CacheSet(WrapperKey(wr_args[t]), v, None, o)
    /\ wr_pc' = [wr_pc EXCEPT ![t] = "idle"]
    /\ wr_args' = [wr_args EXCEPT ![t] = <<>>]
    /\ UNCHANGED wr_runs

\* line 126: the wrapped function raises, and so does the wrapper
WrRaise(t) ==
    /\ wr_pc[t] = "func"
    /\ wr_pc' = [wr_pc EXCEPT ![t] = "idle"]
    /\ wr_args' = [wr_args EXCEPT ![t] = <<>>]
    /\ UNCHANGED <<clock, poolVars, rlVars, keyVars, memory_cache, redis_client,
                   redis_store, cache_returned, cache_raised, last_set, wr_runs>>

\* time passes; the external tier drops the entries whose time has come
TickCache ==
    /\ clock <= MaxTime
    /\ clock' = clock + 1
    /\ redis_store' =
          DictDel(redis_store,
                  {k \in DOMAIN redis_store : redis_store[k][2] <= clock + 1})
    /\ UNCHANGED <<poolVars, rlVars, keyVars, memory_cache, redis_client, cache_returned,
                   cache_raised, last_set>>

\* ------------------------------------------------ navigate endpoints
InitNav ==
    /\ nav_ep = [r \in Requests |-> "none"]
    /\ nav_url = [r \in Requests |-> "a.test"]
    /\ nav_log = [r \in Requests |-> <<>>]

Last(q) == q[Len(q)]

\* the handler of request r is inside get_tab
InHandlerAcquire(r) == nav_ep[r] # "none" /\ Last(nav_log[r]) = "acquire"

\* a handler that goes on after a rejection
PropagatesNothing(result) == FALSE

\* navigation.py lines 20, 37: the handler does not catch what
\* check_rate_limit raises, so a rejection ends the request
Propagates(result) == result = "rejected"

\* what the handler has seen of check_rate_limit once task r has taken its
\* step: nothing yet while the call is suspended, else its outcome
CheckSeen(r) ==
    IF rl_pc'[r] # "idle" THEN <<>>
    ELSE IF Propagates(rl_result'[r]) THEN <<"rejected">> ELSE <<"checked">>

\* the handler goes on with nav_log[r] extended by `events`; the request
\* is over when the last of them is its end
NavGoesOn(r, events) ==
    LET log == nav_log[r] \o events IN
    /\ nav_log' = [nav_log EXCEPT ![r] = log]
    /\ nav_ep' = [nav_ep EXCEPT ![r] =
                     IF \/ Last(log) \in {"rejected", "failed", "cache_set"}
                        \/ Last(log) = "released" /\ "action_failed" \in Range(log)
                        \/ Last(log) = "released" /\ nav_ep[r] = "navigate"
                     THEN "none" ELSE @]
    /\ UNCHANGED nav_url

\* navigation.py lines 12-20 and 30-37: a request arrives at an endpoint
\* and the handler awaits check_rate_limit(request.url)
NavCall(r, ep, d) ==
    /\ nav_ep[r] = "none"
    /\ RL_Call(r, d, "default")
    /\ LET log == <<"check">> \o CheckSeen(r) IN
       /\ nav_log' = [nav_log EXCEPT ![r] = log]
       /\ nav_ep' = [nav_ep EXCEPT ![r] =
                        IF Last(log) = "rejected" THEN "none" ELSE ep]
       /\ nav_url' = [nav_url EXCEPT ![r] = d]

\* navigation.py lines 20, 37: check_rate_limit resumes after its sleep in
\* gate 1
NavWake1(r) ==
    /\ nav_ep[r] # "none"
    /\ RL_Wake1(r)
    /\ NavGoesOn(r, CheckSeen(r))

\* navigation.py lines 20, 37: check_rate_limit returns after the cooldown
NavWake3(r) ==
    /\ nav_ep[r] # "none"
    /\ RL_Wake3(r)
    /\ NavGoesOn(r, CheckSeen(r))

\* navigation.py lines 23, 38; browser.py lines 170, 146-149: navigate
\* calls get_tab(url), which calls tab_pool.acquire(url)
NavGetTab(r) ==
    /\ nav_ep[r] # "none"
    /\ Last(nav_log[r]) = "checked"
    /\ AcqCall(r, TRUE)
    /\ NavGoesOn(r, <<"acquire">>)
    /\ UNCHANGED <<shutdownVars, cancelVars, mgrVars, rlVars, cacheVars>>

\* what the handler has seen of acquire once caller r has taken its step
AcquireSeen(r) ==
    IF pc'[r] = "holding" THEN <<"acquired">>
    ELSE IF pc'[r] = "idle" THEN <<"failed">> ELSE <<>>

\* browser.py line 170: acquire runs on for request r
NavAcquire(r, o) ==
    /\ InHandlerAcquire(r)
    /\ \/ o = "ok" /\ AcqGet(r)
       \/ AcqClose(r, o)
       \/ AcqCreateTry(r, o)
       \/ AcqNavTry(r, o)
       \/ AcqCreateExc(r, o)
    /\ NavGoesOn(r, AcquireSeen(r))
    /\ UNCHANGED <<shutdownVars, cancelVars, mgrVars, rlVars, cacheVars>>

\* browser.py lines 171-191: with the session, navigate sleeps, looks for
\* the element and reads the title (the host answers or raises); the
\* finally clause then calls release_tab
NavAction(r, o) ==
    /\ nav_ep[r] # "none"
    /\ Last(nav_log[r]) = "acquired"
    /\ RelCall(r)
    /\ NavGoesOn(r, IF o = "ok" THEN <<"action">> ELSE <<"action_failed">>)
    /\ UNCHANGED <<shutdownVars, cancelVars, mgrVars, rlVars, cacheVars>>

\* browser.py line 191: release runs on for request r; when it is over
\* navigate returns its result or lets the exception of the action out
NavRelease(r, o) ==
    /\ nav_ep[r] # "none"
    /\ Last(nav_log[r]) \in {"action", "action_failed"}
    /\ \/ o = "ok" /\ RelStart(r)
       \/ RelEval1(r, o, FALSE)
       \/ RelEval2(r, o, FALSE)
    /\ NavGoesOn(r, IF pc'[r] = "idle" THEN <<"released">> ELSE <<>>)
    /\ UNCHANGED <<shutdownVars, cancelVars, mgrVars, rlVars, cacheVars>>

\* navigation.py line 41: f"nav:{request.url}"
NavKey(d) == <<"n", "a", "v", ":", d>>

\* browser.py lines 185-188: the dict navigate returns
NavResult(d) == <<"url", d, "title">>

\* navigation.py lines 40-43: navigate_with_all_deps caches the result and
\* returns it
NavCacheSet(r) ==
    /\ nav_ep[r] = "navigate_with_all"
    /\ Last(nav_log[r]) = "released"
    /\ CacheSet(NavKey(nav_url[r]), NavResult(nav_url[r]), None, "ok")
    /\ UNCHANGED wrVars
    /\ NavGoesOn(r, <<"cache_set">>)

\* time passes beyond the last moment requests arrive at, for as long as
\* a handler is asleep in check_rate_limit
TickNav ==
    /\ clock >= MaxTime
    /\ \E r \in Requests : rl_pc[r] # "idle" /\ clock < rl_wake[r]
    /\ clock' = clock + 1
    /\ UNCHANGED <<poolVars, rlVars, cacheVars, navVars>>

\* ----------------------------------------------------- BrowserManager
\* the browser instances zd.start can return
Browsers == 1..MaxBrowsers

\* the operations that lease a session through get_tab: navigate and
\* navigate_with_pool (browser.py), find_element and click_element
\* (element.py), extract_content (extraction.py)
Operations == {"navigate", "navigate_with_pool", "find_element",
               "click_element", "extract_content"}

\* browser.py lines 157, 170: get_tab(url); element.py line 15 and
\* extraction.py line 17: get_tab()
WithUrl(op) == op \in {"navigate", "navigate_with_pool"}

\* element.py lines 28, 40: find_element returns the element it found
ReturnsElement(op) == op \in {"find_element", "click_element"}

\* browser.py lines 128-132, and no request being served
InitManager ==
    /\ browser = None
    /\ pool_browser = None
    /\ browser_state = [b \in Browsers |-> "none"]
    /\ next_browser = 0
    /\ mgr_lock_owner = None
    /\ mgr_lock_waiters = <<>>
    /\ close_pc = "idle"
    /\ req = [p \in Callers |-> "none"]
    /\ element = [p \in Callers |-> None]
    /\ acquired = [p \in Callers |-> 0]
    /\ rel_calls = [p \in Callers |-> 0]

\* a manager lock that excludes nobody
EnterMgrLockBroken(p) ==
    /\ mgr_lock_owner' = p
    /\ mgr_lock_waiters' = mgr_lock_waiters

\* async with self.lock of the manager, entering
EnterMgrLock(p) ==
    IF mgr_lock_owner = None
    THEN /\ mgr_lock_owner' = p
         /\ mgr_lock_waiters' = mgr_lock_waiters
    ELSE /\ mgr_lock_owner' = mgr_lock_owner
         /\ mgr_lock_waiters' = Append(mgr_lock_waiters, p)

\* async with self.lock of the manager, leaving
LeaveMgrLock ==
    IF mgr_lock_waiters = <<>>
    THEN /\ mgr_lock_owner' = None
         /\ mgr_lock_waiters' = mgr_lock_waiters
    ELSE /\ mgr_lock_owner' = Head(mgr_lock_waiters)
         /\ mgr_lock_waiters' = Tail(mgr_lock_waiters)

KeepMgrLock == UNCHANGED <<mgr_lock_owner, mgr_lock_waiters>>

\* what no step of the manager outside acquire and release touches
PoolAsIs ==
    UNCHANGED <<clock, available_tabs, in_use_tabs, lock_owner, lock_waiters,
                tab_state, last_used, storage, next_tab, tab_info, url, ref,
                took_stale>>

\* a request is over: its handler has returned or raised
Over(p) ==
    /\ req' = [req EXCEPT ![p] = "none"]
    /\ element' = [element EXCEPT ![p] = None]
    /\ acquired' = [acquired EXCEPT ![p] = 0]
    /\ rel_calls' = [rel_calls EXCEPT ![p] = 0]

\* lines 37-39, 143: what tab_pool.initialize(self.browser) leaves in
\* TabPool.browser
Initialize(b) == b

\* lines 146-148, 134-136: an operation calls get_tab, which calls
\* get_browser, which asks for the manager's lock
GetTabCall(p, op) ==
    /\ req[p] = "none"
    /\ pc[p] = "idle"
    /\ req' = [req EXCEPT ![p] = op]
    /\ element' = [element EXCEPT ![p] = None]
    /\ acquired' = [acquired EXCEPT ![p] = 0]
    /\ rel_calls' = [rel_calls EXCEPT ![p] = 0]
    /\ pc' = [pc EXCEPT ![p] = "gb_lock"]
    /\ EnterMgrLock(p)
    /\ PoolAsIs
    /\ UNCHANGED <<browser, pool_browser, browser_state, next_browser,
                   close_pc, shutdownVars>>

\* lines 137, 144, 149: inside the manager's lock; with a browser,
\* get_browser returns it and get_tab calls acquire at once; without one,
\* get_browser awaits zd.start
GbEnter(p) ==
    /\ pc[p] = "gb_lock"
    /\ mgr_lock_owner = p
    /\ IF browser # None
       THEN /\ LeaveMgrLock
            /\ AcquireEnter(p, WithUrl(req[p]))
       ELSE /\ KeepMgrLock
            /\ pc' = [pc EXCEPT ![p] = "gb_start"]
            /\ PoolAsIs
    /\ UNCHANGED <<browser, pool_browser, browser_state, next_browser,
                   close_pc, req, element, acquired, rel_calls,
                   shutdownVars>>

\* lines 139-144, 149: zd.start returns an instance, which is stored and
\* given to the pool, and get_tab calls acquire; or zd.start raises, which
\* ends the request
GbStarted(p, o) ==
    /\ pc[p] = "gb_start"
    /\ CASE o = "ok" ->
              /\ next_browser + 1 \in Browsers
              /\ next_browser' = next_browser + 1
              /\ browser' = next_browser + 1
              /\ browser_state' = [browser_state EXCEPT ![next_browser + 1] = "running"]
              /\ pool_browser' = Initialize(next_browser + 1)
              /\ AcquireEnter(p, WithUrl(req[p]))
              /\ UNCHANGED <<req, element, acquired, rel_calls>>
         [] o = "error" ->
              /\ pc' = [pc EXCEPT ![p] = "idle"]
              /\ Over(p)
              /\ PoolAsIs
              /\ UNCHANGED <<browser, pool_browser, browser_state, next_browser>>
    /\ LeaveMgrLock
    /\ UNCHANGED <<close_pc, shutdownVars>>

\* the request of caller p has taken a step inside acquire: it has been
\* handed a session, or acquire has raised and the request is over, or
\* acquire goes on
AcquireStep(p) ==
    /\ req[p] # "none"
    /\ IF pc'[p] = "idle"
       THEN Over(p)
       ELSE /\ acquired' = [acquired EXCEPT ![p] =
                                IF pc'[p] = "holding" THEN @ + 1 ELSE @]
            /\ UNCHANGED <<req, element, rel_calls>>
    /\ UNCHANGED <<browser, pool_browser, browser_state, next_browser,
                   mgr_lock_owner, mgr_lock_waiters, close_pc, shutdownVars>>

\* an operation whose release is skipped when the page action raises
FinallyOnSuccess(o) == o = "ok"

\* browser.py lines 163-165, 189-191, element.py lines 34-35,
\* extraction.py lines 50-51: the finally clause runs whatever the outcome
\* of the page action
Finally(o) == TRUE

\* browser.py lines 158-165, 171-191, element.py lines 17-35,
\* extraction.py lines 19-51: the operation acts on the page of the
\* session it holds (the host answers or raises) and calls release_tab
ReqAction(p, o) ==
    /\ req[p] # "none"
    /\ pc[p] = "holding"
    /\ IF Finally(o)
       THEN /\ RelCall(p)
            /\ rel_calls' = [rel_calls EXCEPT ![p] = @ + 1]
            /\ element' = [element EXCEPT ![p] =
                              IF ReturnsElement(req[p]) /\ o = "ok"
                              THEN ref[p] ELSE None]
            /\ UNCHANGED <<req, acquired>>
       ELSE /\ pc' = [pc EXCEPT ![p] = "idle"]
            /\ ref' = [ref EXCEPT ![p] = None]
            /\ Over(p)
            /\ UNCHANGED <<clock, available_tabs, in_use_tabs, lock_owner,
                           lock_waiters, tab_state, last_used, storage,
                           next_tab, tab_info, url, took_stale>>
    /\ UNCHANGED <<browser, pool_browser, browser_state, next_browser,
                   mgr_lock_owner, mgr_lock_waiters, close_pc, shutdownVars>>

\* the request of caller p has taken a step inside release: when release
\* has returned, click_element goes on with the element it was returned,
\* every other operation is over
ReleaseStep(p) ==
    /\ req[p] # "none"
    /\ IF pc'[p] = "idle" /\ ~(req[p] = "click_element" /\ element[p] # None)
       THEN Over(p)
       ELSE UNCHANGED <<req, element, acquired, rel_calls>>
    /\ UNCHANGED <<browser, pool_browser, browser_state, next_browser,
                   mgr_lock_owner, mgr_lock_waiters, close_pc, shutdownVars>>

\* element.py lines 40-43: click_element clicks the element find_element
\* returned, sleeps and returns (or the click raises)
ReqClick(p, o) ==
    /\ req[p] = "click_element"
    /\ pc[p] = "idle"
    /\ element[p] # None
    /\ Over(p)
    /\ PoolAsIs
    /\ UNCHANGED <<pc, browser, pool_browser, browser_state, next_browser,
                   mgr_lock_owner, mgr_lock_waiters, close_pc, shutdownVars>>

\* lines 193-195: close_browser is called and asks for the manager's lock
CbCall ==
    /\ close_pc = "idle"
    /\ cleanups < MaxCleanups
    /\ close_pc' = "cb_lock"
    /\ EnterMgrLock(Closer)
    /\ PoolAsIs
    /\ UNCHANGED <<pc, browser, pool_browser, browser_state, next_browser,
                   req, element, acquired, rel_calls, shutdownVars>>

\* lines 196-197: inside the manager's lock, cleanup is called
CbEnter ==
    /\ close_pc = "cb_lock"
    /\ mgr_lock_owner = Closer
    /\ close_pc' = "cb_cleanup"
    /\ ClCall
    /\ KeepMgrLock
    /\ UNCHANGED <<browser, pool_browser, browser_state, next_browser,
                   req, element, acquired, rel_calls>>

\* lines 197-199: cleanup runs and returns; with a browser, close_browser
\* goes on to stop it, else it returns
CbCleanup(unclosed) ==
    /\ close_pc = "cb_cleanup"
    /\ ClRun(unclosed)
    /\ IF browser # None
       THEN /\ close_pc' = "cb_stop"
            /\ KeepMgrLock
       ELSE /\ close_pc' = "idle"
            /\ LeaveMgrLock
    /\ UNCHANGED <<browser, pool_browser, browser_state, next_browser,
                   req, element, acquired, rel_calls>>

\* lines 201-206: browser.stop() returns, and with the instance its tabs
\* are gone; or it raises, which is logged; either way self.browser is
\* None afterwards (TabPool.browser is left as it is)
CbStop(o) ==
    /\ close_pc = "cb_stop"
    /\ CASE o = "ok" ->
              /\ browser_state' = [browser_state EXCEPT ![browser] = "stopped"]
              /\ tab_state' = [s \in Sessions |->
                                  IF tab_state[s] = "open" THEN "closed"
                                  ELSE tab_state[s]]
         [] o = "error" ->
              UNCHANGED <<browser_state, tab_state>>
    /\ browser' = None
    /\ close_pc' = "idle"
    /\ LeaveMgrLock
    /\ UNCHANGED <<clock, available_tabs, in_use_tabs, lock_owner, lock_waiters,
                   last_used, storage, next_tab, pc, tab_info, url, ref,
                   took_stale, pool_browser, next_browser, req, element,
                   acquired, rel_calls, shutdownVars>>

\* the service as configured in this repository: no redis_url
Init ==
    /\ clock = 0
    /\ InitPool
    /\ InitManager
    /\ InitLimiter
    /\ InitCache
    /\ InitWrapper
    /\ InitNav
    /\ redis_client = FALSE

\* lines 17-22: the cache with or without an external tier
InitAnyCache ==
    /\ clock = 0
    /\ InitPool
    /\ InitManager
    /\ InitLimiter
    /\ InitCache
    /\ InitWrapper
    /\ InitNav
    /\ redis_client \in BOOLEAN

\* The pool used as its callers in this repository use it: every release
\* is of the session the caller holds, once.
NextPool ==
    \/ \E p \in Callers, u \in BOOLEAN : AcqCall(p, u) /\ UNCHANGED <<shutdownVars, cancelVars, mgrVars, rlVars, cacheVars, navVars>>
    \/ \E p \in Callers : AcqGet(p) /\ UNCHANGED <<shutdownVars, cancelVars, mgrVars, rlVars, cacheVars, navVars>>
    \/ \E p \in Callers, o \in HostOutcomes : AcqClose(p, o) /\ UNCHANGED <<shutdownVars, cancelVars, mgrVars, rlVars, cacheVars, navVars>>
    \/ \E p \in Callers, o \in HostOutcomes : AcqCreateTry(p, o) /\ UNCHANGED <<shutdownVars, cancelVars, mgrVars, rlVars, cacheVars, navVars>>
    \/ \E p \in Callers, o \in HostOutcomes : AcqNavTry(p, o) /\ UNCHANGED <<shutdownVars, cancelVars, mgrVars, rlVars, cacheVars, navVars>>
    \/ \E p \in Callers, o \in HostOutcomes : AcqCreateExc(p, o) /\ UNCHANGED <<shutdownVars, cancelVars, mgrVars, rlVars, cacheVars, navVars>>
    \/ \E p \in Callers : RelCall(p) /\ UNCHANGED <<shutdownVars, cancelVars, mgrVars, rlVars, cacheVars, navVars>>
    \/ \E p \in Callers : RelStart(p) /\ UNCHANGED <<shutdownVars, cancelVars, mgrVars, rlVars, cacheVars, navVars>>
    \/ \E p \in Callers, o \in {"ok", "error"} : RelEval1(p, o, FALSE) /\ UNCHANGED <<shutdownVars, cancelVars, mgrVars, rlVars, cacheVars, navVars>>
    \/ \E p \in Callers, o \in {"ok", "error"} : RelEval2(p, o, FALSE) /\ UNCHANGED <<shutdownVars, cancelVars, mgrVars, rlVars, cacheVars, navVars>>
    \/ TickPool

SpecPool == Init /\ [][NextPool]_vars

\* The pool with a caller that keeps the reference to a session it has
\* released and releases it again, while the other callers keep the
\* sessions they lease.  That caller acquires without a url, as get_tab()
\* in element.py does, the others with one, as navigate does.
Misusers == {1}

NextMisuse ==
    \/ \E p \in Callers : AcqCall(p, p \notin Misusers) /\ UNCHANGED <<shutdownVars, cancelVars, mgrVars, rlVars, cacheVars, navVars>>
    \/ \E p \in Callers : AcqGet(p) /\ UNCHANGED <<shutdownVars, cancelVars, mgrVars, rlVars, cacheVars, navVars>>
    \/ \E p \in Callers, o \in HostOutcomes : AcqClose(p, o) /\ UNCHANGED <<shutdownVars, cancelVars, mgrVars, rlVars, cacheVars, navVars>>
    \/ \E p \in Callers, o \in HostOutcomes : AcqCreateTry(p, o) /\ UNCHANGED <<shutdownVars, cancelVars, mgrVars, rlVars, cacheVars, navVars>>
    \/ \E p \in Callers, o \in HostOutcomes : AcqCreateExc(p, o) /\ UNCHANGED <<shutdownVars, cancelVars, mgrVars, rlVars, cacheVars, navVars>>
    \/ \E p \in Callers, o \in HostOutcomes : AcqNavTry(p, o) /\ UNCHANGED <<shutdownVars, cancelVars, mgrVars, rlVars, cacheVars, navVars>>
    \/ \E p \in Callers : AcqWait(p) /\ UNCHANGED <<shutdownVars, cancelVars, mgrVars, rlVars, cacheVars, navVars>>
    \/ \E p \in Callers, o \in HostOutcomes : AcqNavExc(p, o) /\ UNCHANGED <<shutdownVars, cancelVars, mgrVars, rlVars, cacheVars, navVars>>
    \/ \E p \in Misusers : RelCall(p) /\ UNCHANGED <<shutdownVars, cancelVars, mgrVars, rlVars, cacheVars, navVars>>
    \/ \E p \in Misusers : RelAgain(p) /\ UNCHANGED <<shutdownVars, cancelVars, mgrVars, rlVars, cacheVars, navVars>>
    \/ \E p \in Misusers : RelStart(p) /\ UNCHANGED <<shutdownVars, cancelVars, mgrVars, rlVars, cacheVars, navVars>>
    \/ \E p \in Misusers, o \in {"ok", "error"} : RelEval1(p, o, TRUE) /\ UNCHANGED <<shutdownVars, cancelVars, mgrVars, rlVars, cacheVars, navVars>>
    \/ \E p \in Misusers, o \in {"ok", "error"} : RelEval2(p, o, TRUE) /\ UNCHANGED <<shutdownVars, cancelVars, mgrVars, rlVars, cacheVars, navVars>>
    \/ TickPool

SpecMisuse == Init /\ [][NextMisuse]_vars

\* The pool, used properly and without urls, and its shutdown.  The event
\* loop keeps running whatever coroutine is ready.
NextShutdown ==
    \/ \E p \in Callers : AcqCall(p, FALSE) /\ UNCHANGED <<shutdownVars, cancelVars, mgrVars, rlVars, cacheVars, navVars>>
    \/ \E p \in Callers : AcqGet(p) /\ UNCHANGED <<shutdownVars, cancelVars, mgrVars, rlVars, cacheVars, navVars>>
    \/ \E p \in Callers, o \in {"ok", "error"} : AcqCreateExc(p, o) /\ UNCHANGED <<shutdownVars, cancelVars, mgrVars, rlVars, cacheVars, navVars>>
    \/ \E p \in Callers : RelCall(p) /\ UNCHANGED <<shutdownVars, cancelVars, mgrVars, rlVars, cacheVars, navVars>>
    \/ \E p \in Callers : RelStart(p) /\ UNCHANGED <<shutdownVars, cancelVars, mgrVars, rlVars, cacheVars, navVars>>
    \/ \E p \in Callers, o \in {"ok", "error"} : RelEval1(p, o, FALSE) /\ UNCHANGED <<shutdownVars, cancelVars, mgrVars, rlVars, cacheVars, navVars>>
    \/ \E p \in Callers, o \in {"ok", "error"} : RelEval2(p, o, FALSE) /\ UNCHANGED <<shutdownVars, cancelVars, mgrVars, rlVars, cacheVars, navVars>>
    \/ ClCall /\ UNCHANGED <<cancelVars, mgrVars, rlVars, cacheVars, navVars>>
    \/ \E unclosed \in SUBSET Sessions : ClRun(unclosed) /\ UNCHANGED <<cancelVars, mgrVars, rlVars, cacheVars, navVars>>

SpecShutdown == Init /\ [][NextShutdown]_vars /\ WF_vars(NextShutdown)

\* The pool used properly, without urls and with fresh sessions only.  The
\* event loop keeps running whatever coroutine is ready, and a caller that
\* holds a session calls release in the end.
NextPoolFair ==
    \/ \E p \in Callers : AcqCall(p, FALSE) /\ UNCHANGED <<shutdownVars, cancelVars, mgrVars, rlVars, cacheVars, navVars>>
    \/ \E p \in Callers : AcqGet(p) /\ UNCHANGED <<shutdownVars, cancelVars, mgrVars, rlVars, cacheVars, navVars>>
    \/ \E p \in Callers, o \in {"ok", "error"} : AcqCreateExc(p, o) /\ UNCHANGED <<shutdownVars, cancelVars, mgrVars, rlVars, cacheVars, navVars>>
    \/ \E p \in Callers : RelCall(p) /\ UNCHANGED <<shutdownVars, cancelVars, mgrVars, rlVars, cacheVars, navVars>>
    \/ \E p \in Callers : RelStart(p) /\ UNCHANGED <<shutdownVars, cancelVars, mgrVars, rlVars, cacheVars, navVars>>
    \/ \E p \in Callers, o \in {"ok", "error"} : RelEval1(p, o, FALSE) /\ UNCHANGED <<shutdownVars, cancelVars, mgrVars, rlVars, cacheVars, navVars>>
    \/ \E p \in Callers, o \in {"ok", "error"} : RelEval2(p, o, FALSE) /\ UNCHANGED <<shutdownVars, cancelVars, mgrVars, rlVars, cacheVars, navVars>>

SpecPoolFair ==
    /\ Init
    /\ [][NextPoolFair]_vars
    /\ WF_vars(NextPoolFair)
    /\ \A p \in Callers : WF_vars(RelCall(p) /\ UNCHANGED <<shutdownVars, cancelVars, mgrVars, rlVars, cacheVars, navVars>>)

\* The pool used properly, with callers that may be cancelled while they are
\* suspended in acquire.
NextCancel ==
    \/ \E p \in Callers : AcqCall(p, FALSE) /\ UNCHANGED <<shutdownVars, cancelVars, mgrVars, rlVars, cacheVars, navVars>>
    \/ \E p \in Callers : AcqGet(p) /\ UNCHANGED <<shutdownVars, cancelVars, mgrVars, rlVars, cacheVars, navVars>>
    \/ \E p \in Callers, o \in {"ok", "error"} : AcqCreateExc(p, o) /\ UNCHANGED <<shutdownVars, cancelVars, mgrVars, rlVars, cacheVars, navVars>>
    \/ \E p \in Callers : Cancel(p) /\ UNCHANGED <<shutdownVars, mgrVars, rlVars, cacheVars, navVars>>
    \/ \E p \in Callers : RelCall(p) /\ UNCHANGED <<shutdownVars, cancelVars, mgrVars, rlVars, cacheVars, navVars>>
    \/ \E p \in Callers : RelStart(p) /\ UNCHANGED <<shutdownVars, cancelVars, mgrVars, rlVars, cacheVars, navVars>>
    \/ \E p \in Callers, o \in {"ok", "error"} : RelEval1(p, o, FALSE) /\ UNCHANGED <<shutdownVars, cancelVars, mgrVars, rlVars, cacheVars, navVars>>
    \/ \E p \in Callers, o \in {"ok", "error"} : RelEval2(p, o, FALSE) /\ UNCHANGED <<shutdownVars, cancelVars, mgrVars, rlVars, cacheVars, navVars>>

SpecCancel == Init /\ [][NextCancel]_vars

\* The rate limiter called by concurrent tasks.
NextLimiter ==
    \/ \E t \in Tasks, d \in Domains, c \in Clients : RL_Call(t, d, c) /\ UNCHANGED navVars
    \/ \E t \in Tasks : RL_Wake1(t) /\ UNCHANGED navVars
    \/ \E t \in Tasks : RL_Wake3(t) /\ UNCHANGED navVars
    \/ TickLimiter /\ UNCHANGED navVars

SpecLimiter == Init /\ [][NextLimiter]_vars

\* The rate limiter as the routes call it: no client_info is passed, so
\* every call is counted for the client "default".
NextRoutes ==
    \/ \E t \in Tasks, d \in Domains : RL_Call(t, d, "default") /\ UNCHANGED navVars
    \/ \E t \in Tasks : RL_Wake1(t) /\ UNCHANGED navVars
    \/ \E t \in Tasks : RL_Wake3(t) /\ UNCHANGED navVars
    \/ TickLimiter /\ UNCHANGED navVars

SpecRoutes == Init /\ [][NextRoutes]_vars

\* The rate limiter as the routes call it, with time that passes and an
\* event loop that resumes a task whose sleep is over.
NextSleepers ==
    \/ \E t \in Tasks, d \in Domains :
          clock <= Horizon /\ RL_Call(t, d, "default") /\ UNCHANGED navVars
    \/ \E t \in Tasks : RL_Wake1(t) /\ UNCHANGED navVars
    \/ \E t \in Tasks : RL_Wake3(t) /\ UNCHANGED navVars
    \/ TickLimiter /\ UNCHANGED navVars
    \/ TickAsleep /\ UNCHANGED navVars

SpecSleepers ==
    /\ Init
    /\ [][NextSleepers]_vars
    /\ WF_vars(TickLimiter /\ UNCHANGED navVars)
    /\ WF_vars(TickAsleep /\ UNCHANGED navVars)
    /\ \A t \in Tasks : /\ WF_vars(RL_Wake1(t) /\ UNCHANGED navVars)
                         /\ WF_vars(RL_Wake3(t) /\ UNCHANGED navVars)

\* The navigate endpoints serving requests for one url, with the limiter,
\* the pool and the cache they share.
NextNavigate ==
    \/ \E r \in Requests, ep \in Endpoints, d \in NavUrls :
          clock <= MaxTime /\ NavCall(r, ep, d)
    \/ \E r \in Requests : NavWake1(r)
    \/ \E r \in Requests : NavWake3(r)
    \/ \E r \in Requests : NavGetTab(r)
    \/ \E r \in Requests, o \in HostOutcomes : NavAcquire(r, o)
    \/ \E r \in Requests, o \in {"ok", "error"} : NavAction(r, o)
    \/ \E r \in Requests, o \in {"ok", "error"} : NavRelease(r, o)
    \/ \E r \in Requests : NavCacheSet(r)
    \/ TickPool
    \/ TickNav

SpecNavigate == Init /\ [][NextNavigate]_vars

\* The operations that lease sessions through the BrowserManager, served
\* concurrently.
NextRequests ==
    \/ \E p \in Callers, op \in Operations :
          GetTabCall(p, op) /\ UNCHANGED <<cancelVars, rlVars, cacheVars, navVars>>
    \/ \E p \in Callers : GbEnter(p) /\ UNCHANGED <<cancelVars, rlVars, cacheVars, navVars>>
    \/ \E p \in Callers, o \in {"ok", "error"} :
          GbStarted(p, o) /\ UNCHANGED <<cancelVars, rlVars, cacheVars, navVars>>
    \/ \E p \in Callers :
          AcqGet(p) /\ AcquireStep(p) /\ UNCHANGED <<cancelVars, rlVars, cacheVars, navVars>>
    \/ \E p \in Callers, o \in HostOutcomes :
          AcqNavTry(p, o) /\ AcquireStep(p) /\ UNCHANGED <<cancelVars, rlVars, cacheVars, navVars>>
    \/ \E p \in Callers, o \in HostOutcomes :
          AcqCreateExc(p, o) /\ AcquireStep(p) /\ UNCHANGED <<cancelVars, rlVars, cacheVars, navVars>>
    \/ \E p \in Callers, o \in {"ok", "error"} :
          ReqAction(p, o) /\ UNCHANGED <<cancelVars, rlVars, cacheVars, navVars>>
    \/ \E p \in Callers :
          RelStart(p) /\ ReleaseStep(p) /\ UNCHANGED <<cancelVars, rlVars, cacheVars, navVars>>
    \/ \E p \in Callers, o \in {"ok", "error"} :
          RelEval1(p, o, FALSE) /\ ReleaseStep(p) /\ UNCHANGED <<cancelVars, rlVars, cacheVars, navVars>>
    \/ \E p \in Callers, o \in {"ok", "error"} :
          RelEval2(p, o, FALSE) /\ ReleaseStep(p) /\ UNCHANGED <<cancelVars, rlVars, cacheVars, navVars>>
    \/ \E p \in Callers, o \in {"ok", "error"} :
          ReqClick(p, o) /\ UNCHANGED <<cancelVars, rlVars, cacheVars, navVars>>

SpecRequests == Init /\ [][NextRequests]_vars

\* The BrowserManager serving two requests at a time, one kind that passes
\* a url to get_tab and one that does not, and close_browser.
ManagerCallers == {1, 2}
ManagerOperations == {"navigate", "extract_content"}

NextManager ==
    \/ \E p \in ManagerCallers, op \in ManagerOperations :
          GetTabCall(p, op) /\ UNCHANGED <<cancelVars, rlVars, cacheVars, navVars>>
    \/ \E p \in ManagerCallers : GbEnter(p) /\ UNCHANGED <<cancelVars, rlVars, cacheVars, navVars>>
    \/ \E p \in ManagerCallers, o \in {"ok", "error"} :
          GbStarted(p, o) /\ UNCHANGED <<cancelVars, rlVars, cacheVars, navVars>>
    \/ \E p \in ManagerCallers :
          AcqGet(p) /\ AcquireStep(p) /\ UNCHANGED <<cancelVars, rlVars, cacheVars, navVars>>
    \/ \E p \in ManagerCallers, o \in HostOutcomes :
          AcqNavTry(p, o) /\ AcquireStep(p) /\ UNCHANGED <<cancelVars, rlVars, cacheVars, navVars>>
    \/ \E p \in ManagerCallers, o \in HostOutcomes :
          AcqCreateExc(p, o) /\ AcquireStep(p) /\ UNCHANGED <<cancelVars, rlVars, cacheVars, navVars>>
    \/ \E p \in ManagerCallers, o \in {"ok", "error"} :
          ReqAction(p, o) /\ UNCHANGED <<cancelVars, rlVars, cacheVars, navVars>>
    \/ \E p \in ManagerCallers :
          RelStart(p) /\ ReleaseStep(p) /\ UNCHANGED <<cancelVars, rlVars, cacheVars, navVars>>
    \/ \E p \in ManagerCallers, o \in {"ok", "error"} :
          RelEval1(p, o, FALSE) /\ ReleaseStep(p) /\ UNCHANGED <<cancelVars, rlVars, cacheVars, navVars>>
    \/ \E p \in ManagerCallers, o \in {"ok", "error"} :
          RelEval2(p, o, FALSE) /\ ReleaseStep(p) /\ UNCHANGED <<cancelVars, rlVars, cacheVars, navVars>>
    \/ CbCall /\ UNCHANGED <<cancelVars, rlVars, cacheVars, navVars>>
    \/ CbEnter /\ UNCHANGED <<cancelVars, rlVars, cacheVars, navVars>>
    \/ \E unclosed \in SUBSET Sessions :
          CbCleanup(unclosed) /\ UNCHANGED <<cancelVars, rlVars, cacheVars, navVars>>
    \/ \E o \in {"ok", "error"} :
          CbStop(o) /\ UNCHANGED <<cancelVars, rlVars, cacheVars, navVars>>

SpecManager == Init /\ [][NextManager]_vars

\* The cache called with every outcome of its external tier.
NextCache ==
    \/ \E k \in CacheKeys, o \in RedisOutcomes : CacheGet(k, o) /\ UNCHANGED <<navVars, wrVars>>
    \/ \E k \in CacheKeys, v \in Values, ttl \in TtlArgs, o \in RedisOutcomes :
          CacheSet(k, v, ttl, o) /\ UNCHANGED <<navVars, wrVars>>
    \/ \E k \in CacheKeys, o \in RedisOutcomes : CacheDelete(k, o) /\ UNCHANGED <<navVars, wrVars>>
    \/ \E pattern \in Patterns, o \in RedisOutcomes :
          CacheClearPattern(pattern, o) /\ UNCHANGED <<navVars, wrVars>>
    \/ TickCache /\ UNCHANGED <<navVars, wrVars>>

SpecCache == InitAnyCache /\ [][NextCache]_vars

\* Methods wrapped by the cached decorator, called concurrently, with every
\* outcome of the external tier.
NextCached ==
    \/ \E t \in Tasks, a \in WrapperArgs, o \in RedisOutcomes :
          WrCall(t, a, o) /\ UNCHANGED navVars
    \/ \E t \in Tasks, v \in WrapperResults, o \in RedisOutcomes :
          WrReturn(t, v, o) /\ UNCHANGED navVars
    \/ \E t \in Tasks : WrRaise(t) /\ UNCHANGED navVars
    \/ TickCache /\ UNCHANGED <<navVars, wrVars>>

SpecCached == InitAnyCache /\ [][NextCached]_vars

\* The key construction, called with prefixes and parameter mappings.
NextKeys ==
    \E prefix \in Prefixes, m \in Mappings : MakeKeyCall(prefix, m) /\ UNCHANGED <<navVars, wrVars>>

SpecKeys == Init /\ [][NextKeys]_vars

\* ---------------------------------------------------- claims: TabPool
InAcquire(p) == pc[p] \in {"acq_lock", "acq_close", "acq_create_try",
                           "acq_nav_try", "acq_create_exc", "acq_wait",
                           "acq_nav_exc"}
InRelease(p) == pc[p] \in {"rel_lock", "rel_eval1", "rel_eval2"}
\* p has been handed a session and its release has not completed
Holds(p) == pc[p] = "holding" \/ InRelease(p)
Quiescent == \A p \in Callers : pc[p] \in {"idle", "holding"}
\* callers that passed the capacity check and are creating a session
Creating == {p \in Callers : pc[p] = "acq_create_exc"}

\* C1: when every release is of a session leased to its caller, the free
\* queue and the leased set never hold more than max_tabs sessions, also
\* counting a session a caller has been let through to create; two
\* acquirers never are past the capacity check at once.
C1_WithinMaximum ==
    /\ Len(available_tabs) + Cardinality(in_use_tabs) + Cardinality(Creating)
          <= max_tabs
    /\ Cardinality(Creating) <= 1

\* C1 witness: one acquirer is past the check with one slot left while
\* another acquirer is waiting to get in
C1_Witness ==
    \E p, q \in Callers :
        /\ pc[p] = "acq_create_exc"
        /\ pc[q] = "acq_lock"
        /\ Cardinality(in_use_tabs) = max_tabs - 1

\* C2 (as claimed): when an acquirer is suspended at capacity and a holder
\* has called release, one of the two can take its next step.
C2_ReleaseUnblocksWaiter ==
    \A p, q \in Callers :
        (pc[p] = "acq_wait" /\ pc[q] = "rel_lock")
            => ENABLED (AcqWait(p) \/ RelStart(q))

\* C3: when each lease is released once, no session is held by two
\* callers at the same time.
C3_NoSharedLease ==
    \A p, q \in Callers :
        (p # q /\ Holds(p) /\ Holds(q)) => ref[p] # ref[q]

\* C3 witness: two callers hold sessions while a third is acquiring
C3_Witness ==
    \E p, q, r \in Callers :
        /\ p # q
        /\ pc[p] = "holding"
        /\ pc[q] = "holding"
        /\ pc[r] = "acq_lock"
        /\ next_tab > max_tabs

\* C4 (as claimed): with no acquire or release in progress, every session
\* created and not closed is in exactly one of the free queue and the
\* leased set.
C4_FreeOrLeased ==
    Quiescent =>
        \A s \in Sessions :
            tab_state[s] = "open" =>
                (s \in Range(available_tabs)) # (s \in in_use_tabs)

\* C5 (as claimed): a release of a session that is not leased changes
\* nothing, so the free queue never holds a session twice.
C5_NoDuplicateFree ==
    \A i, j \in 1..Len(available_tabs) :
        i # j => available_tabs[i] # available_tabs[j]

\* C6 (as claimed): acquire never returns a session that was idle for
\* more than max_idle_time when it was taken from the free queue.
C6_NeverStale == \A p \in Callers : pc[p] = "holding" => ~took_stale[p]

\* C7 (as claimed): a release whose two scripts both succeed leaves the
\* session without cookies, localStorage and sessionStorage data.
C7_ReleaseSanitizes ==
    [][\A p \in Callers :
          RelEval2(p, "ok", FALSE) => storage'[tab_info[p]] = {}]_vars

\* C8: a release in which a clearing script raises still returns to its
\* caller, with the session appended to the free queue and out of the
\* leased set.
C8_FailedSanitizeStillFrees ==
    [][\A p \in Callers :
          (RelEval1(p, "error", FALSE) \/ RelEval2(p, "error", FALSE)) =>
              /\ pc'[p] = "idle"
              /\ available_tabs' = Append(available_tabs, tab_info[p])
              /\ tab_info[p] \notin in_use_tabs']_vars

\* C8 witness: a session whose localStorage was not cleared (the first
\* script raised) is in the free queue
C8_Witness ==
    \E i \in 1..Len(available_tabs) :
        "localStorage" \in storage[available_tabs[i]]

\* ------------------------------------------------ claims: RateLimiter
\* the permitted calls of client c that bear a timestamp in lo..hi
RECURSIVE CountedFrom(_, _, _)
CountedFrom(c, lo, hi) ==
    IF lo > hi THEN 0 ELSE permitted_log[c][lo] + CountedFrom(c, lo + 1, hi)

\* the permitted calls of client c made no earlier than Window before
\* `from` and no later than `upto`
CountedInWindow(c, from, upto) ==
    CountedFrom(c, IF from > Window THEN from - Window ELSE 0, upto)

\* What the per-client limit asks of a call made at `now` and passing
\* gate 2 at `clock` (later, if it slept in gate 1).  It must be rejected
\* when the limit is reached by calls made before it that are inside the
\* window even as it is decided; it must be permitted when the limit is
\* not reached even counting every call not older than Window when it was
\* made.  In between either answer honours the limit.
Honoured(c, now, result, wait) ==
    /\ CountedInWindow(c, clock, now) >= rate_limit_per_minute
          => (result = "rejected" /\ wait > 0)
    /\ CountedInWindow(c, now, Horizon) < rate_limit_per_minute
          => result = "permitted"

\* task t passes gate 2 in this step (straight from the call, or when its
\* sleep in gate 1 is over)
Decides(t) ==
    \/ \E d \in Domains, c \in Clients : RL_Call(t, d, c) /\ ~MustWait(d, clock)
    \/ RL_Wake1(t)

\* C9: a call by a client that finds rate_limit_per_minute permitted calls
\* of that client inside its window is rejected with a wait time above
\* zero; a call that finds fewer (the older ones being more than Window
\* old) is permitted.
C9_LimitPerWindow ==
    [][\A t \in Tasks :
         /\ \A d \in Domains, c \in Clients :
               (RL_Call(t, d, c) /\ ~MustWait(d, clock))
                   => Honoured(c, clock, rl_result'[t], rl_wait'[t])
         /\ RL_Wake1(t)
               => Honoured(rl_client[t], rl_now[t], rl_result'[t], rl_wait'[t])
      ]_vars

\* C10: a call that gate 2 rejects leaves domain_last_request as it was
\* before the call.
C10_RejectionKeepsLastRequest ==
    [][\A t \in Tasks :
         (Decides(t) /\ rl_result'[t] = "rejected")
             => domain_last_request' = domain_last_request
      ]_vars

\* what a rejection of task t's call for client c, made at `now`, leaves
\* behind and reports
CountsNothing(t, c, now) ==
    /\ client_requests' = client_requests
    /\ global_requests' = global_requests
    /\ 10 * now + rl_wait'[t] = 10 * (client_requests[c][1] + Window) + 1

C12_SpacingPerDomain ==
    [][\A t \in Tasks, d \in Domains :
         (/\ \/ \E c \in Clients : RL_Call(t, d, c) /\ ~MustWait(d, clock)
             \/ RL_Wake1(t) /\ d = rl_domain[t]
          /\ d \in DOMAIN domain_last_request)
             => clock - domain_last_request[d] >= rate_limit_delay
      ]_vars

\* C13: no client's window ever holds more than rate_limit_per_minute
\* entries.
C13_WindowCapped ==
    \A c \in Clients : Len(client_requests[c]) <= rate_limit_per_minute

\* a call sleeps in gate 1 while its client's window is full, and another
\* call of that client has been rejected
C13_Witness ==
    \E t, u \in Tasks :
        /\ rl_pc[t] = "gate1"
        /\ Len(client_requests[rl_client[t]]) = rate_limit_per_minute
        /\ rl_result[u] = "rejected"

\* --------------------------------------------------------- claims: cache
\* C14: a get of a key returns the value of the key's last set while the
\* entry is younger than the ttl it was stored with, and absent once it
\* is older than that ttl.
C14_TtlHonoured ==
    [][\A k \in CacheKeys, o \in RedisOutcomes :
         (CacheGet(k, o) /\ k \in DOMAIN last_set) =>
             LET age == clock - last_set[k][2] IN
             /\ age < last_set[k][3] => cache_returned' = last_set[k][1]
             /\ age > last_set[k][3] => cache_returned' = Absent
      ]_vars

\* C15: a cache call whose external tier raises does not raise to its
\* caller, and does to the memory tier and returns what the call of a
\* CacheManager without external tier does and returns.
C15_TierFailureIsLocalOnly ==
    [][redis_client =>
         /\ \A k \in CacheKeys :
              /\ CacheGet(k, "raise") => (LocalGet(k) /\ ~cache_raised')
              /\ CacheDelete(k, "raise") => (LocalDelete(k) /\ ~cache_raised')
              /\ \A v \in Values, ttl \in TtlArgs :
                    CacheSet(k, v, ttl, "raise")
                        => (LocalSet(k, v) /\ ~cache_raised')
         /\ \A pattern \in Patterns :
              CacheClearPattern(pattern, "raise")
                  => (LocalClear(pattern) /\ ~cache_raised')
      ]_vars

\* an external tier is configured and has accepted nothing, and a get has
\* returned a value all the same
C15_Witness ==
    /\ redis_client
    /\ redis_store = [k \in {} |-> 0]
    /\ cache_returned \in Values
    /\ ~cache_raised

\* C16: when clear_pattern(pattern) has completed, with the external tier
\* answering, no key that matches the pattern is left in the memory tier
\* or in the external tier.
C16_ClearRemovesMatches ==
    [][\A pattern \in Patterns :
         CacheClearPattern(pattern, "ok") =>
             \A k \in CacheKeys :
                 GlobMatch(pattern, k) =>
                     /\ k \notin DOMAIN memory_cache'
                     /\ k \notin DOMAIN redis_store'
      ]_vars

\* ------------------------------------------- claims: TabPool, shutdown
\* C17: when the host fails to create a tab, the acquire call ends there
\* with the error (it does not go on to create again or to wait), the
\* leased set is as before and the call no longer owns the lock.
C17_CreateFailurePropagates ==
    [][\A p \in Callers, o \in {"error", "timeout"} :
         (AcqCreateTry(p, o) \/ AcqCreateExc(p, o)) =>
             /\ pc'[p] = "idle"
             /\ in_use_tabs' = in_use_tabs
             /\ lock_owner' # p
      ]_vars

\* C18: a cleanup that has been called completes.
C18_CleanupCompletes == (cleanup_pc = "cl_lock") ~> (cleanup_pc = "done")

\* C19: when cleanup completes, every session that was in the queue or in
\* the leased set is closed, the queue is empty and the leased set is
\* empty.
C19_CleanupForgetsAll ==
    [][\A unclosed \in SUBSET Sessions :
         ClRun(unclosed) =>
             /\ \A s \in in_use_tabs \cup Range(available_tabs) :
                   tab_state'[s] = "closed"
             /\ available_tabs' = <<>>
             /\ in_use_tabs' = {}
      ]_vars

\* C20: a cleanup called after a cleanup has completed completes too
\* (nothing in it raises) and leaves what the first one left: an empty
\* queue, and the leased set as it was.
C20_CleanupIdempotent ==
    [][\A unclosed \in SUBSET Sessions :
         (ClRun(unclosed) /\ cleanups >= 1) =>
             /\ cleanup_pc' = "done"
             /\ available_tabs' = <<>>
             /\ in_use_tabs' = in_use_tabs
      ]_vars

\* two cleanups have completed, the second one having found sessions in
\* the leased set
C20_Witness ==
    /\ cleanups = 2
    /\ cleanup_pc = "done"
    /\ in_use_tabs # {}

\* ------------------------------------------- claims: TabPool, progress
\* C21: every call of acquire comes to an end (with a session, or with
\* the error of the host), given that the callers that hold a session
\* call release.
C21_AcquireReturns ==
    \A p \in Callers : (pc[p] = "acq_lock") ~> (pc[p] \in {"holding", "idle"})

\* callers that acquire has handed a session and that have not called
\* release since
Served == {p \in Callers : pc[p] = "holding"}

\* C25: with max_tabs sessions leased and nothing released, the calls up
\* to max_tabs are served without waiting and no more than max_tabs callers
\* are served; a further call waits only when max_tabs sessions are leased,
\* and while the queue stays empty it neither returns nor raises.
C25_ThirdCallWaits ==
    /\ [](/\ Cardinality(Served) <= max_tabs
          /\ \A p \in Callers :
                pc[p] = "acq_wait" => Cardinality(in_use_tabs) = max_tabs)
    /\ [][\A p \in Callers :
            (pc[p] = "acq_wait" /\ available_tabs = <<>>)
                => pc'[p] = "acq_wait"]_vars

\* C25 witness: three calls and no release; two callers hold the two
\* sessions that were created and the third is suspended at line 68
C25_Witness ==
    /\ Cardinality(Served) = max_tabs
    /\ \E p \in Callers : pc[p] = "acq_wait"
    /\ next_tab = max_tabs
    /\ available_tabs = <<>>
    /\ in_use_tabs = 1..max_tabs

\* caller p is known to the pool lock, as its owner or as a waiter
AtLock(p) == lock_owner = p \/ p \in Range(lock_waiters)

\* C22: a caller cancelled while it waits in acquire for the lock or for
\* a free session leaves the leased set, the queue and the sessions as they
\* were and is forgotten by the lock; a caller outside acquire and release
\* is never known to the lock, every leased session is held by a caller,
\* and every open session is in the queue, leased, or being given back.
C22_CancelTakesNothing ==
    /\ [][\A p \in Callers :
            (pc'[p] = "idle" /\ pc[p] \in {"acq_lock", "acq_wait"}) =>
                /\ in_use_tabs' = in_use_tabs
                /\ available_tabs' = available_tabs
                /\ tab_state' = tab_state
                /\ ~AtLock(p)']_vars
    /\ [](\A p \in Callers : AtLock(p) => (InAcquire(p) \/ InRelease(p)))
    /\ [](\A s \in in_use_tabs : \E p \in Callers : Holds(p) /\ ref[p] = s)
    /\ [](\A s \in Sessions :
            tab_state[s] = "open" =>
                \/ s \in Range(available_tabs)
                \/ s \in in_use_tabs
                \/ \E p \in Callers : InRelease(p) /\ tab_info[p] = s)

\* C22 witness: a caller that was cancelled at line 68 is idle, and a
\* session released after that is taken from the queue by another caller
C22_Witness ==
    \E p, q \in Callers :
        /\ p # q
        /\ cancelled = {p}
        /\ pc[p] = "idle"
        /\ ref[p] = None
        /\ pc[q] = "holding"
        /\ next_tab = max_tabs
        /\ Cardinality(in_use_tabs) = 1
        /\ available_tabs # <<>>
        /\ lock_owner = None

\* ------------------------------------- claims: RateLimiter, the gates
\* the oldest timestamp of a window that is not empty
Oldest(q) == CHOOSE x \in Range(q) : \A y \in Range(q) : x <= y

\* the wait a rejection of client c's call decided at `clock` is to
\* report, in tenths: the time left until the oldest entry of the window
\* is Window old, give or take the tenth that line 69 adds
ReportsRemaining(c, wait) ==
    LET remaining == 10 * (Oldest(client_requests'[c]) + Window - clock)
    IN  wait \in {remaining, remaining + 1}

\* C23: a call that gate 2 rejects reports the time left until the oldest
\* entry of the client's window is Window old.
C23_WaitIsTimeRemaining ==
    [][\A t \in Tasks :
         rl_result'[t] = "rejected" =>
             /\ \A d \in Domains, c \in Clients :
                   (RL_Call(t, d, c) /\ ~MustWait(d, clock))
                       => ReportsRemaining(c, rl_wait'[t])
             /\ RL_Wake1(t) => ReportsRemaining(rl_client[t], rl_wait'[t])
      ]_vars

\* the window of client c as task t's call counted it at line 66, read
\* from what the call leaves: the window itself after a rejection, all
\* but the entry appended at line 77 otherwise
CountedWindow(t, c) ==
    LET q == client_requests'[c]
    IN  IF rl_result'[t] = "rejected" THEN q ELSE SubSeq(q, 1, Len(q) - 1)

\* no entry of the counted window is more than Window older than the time
\* it is counted
NothingExpired(t, c) ==
    \A x \in Range(CountedWindow(t, c)) : clock - x <= Window

\* C24: when gate 2 counts a client's window, no timestamp in it is more
\* than Window older than the clock, also after a wait in gate 1.
C24_CountsNoExpiredEntry ==
    [][\A t \in Tasks :
         /\ \A d \in Domains, c \in Clients :
               (RL_Call(t, d, c) /\ ~MustWait(d, clock)) => NothingExpired(t, c)
         /\ RL_Wake1(t) => NothingExpired(t, rl_client[t])
      ]_vars

\* the records gate 2 and gate 3 write
Records == <<client_requests, global_requests, permitted_log>>

\* C26: the gates of one call run in the order 1, 2, 3.  A call made for a
\* domain requested less than rate_limit_delay ago is suspended with gate 2
\* not yet evaluated, and stays so until its wait is over; a call that
\* gate 2 rejects appends nothing to the global ring and is not delayed by
\* gate 3; only a call that gate 2 has just permitted and recorded enters
\* the cooldown.
C26_GateOrder ==
    [][\A t \in Tasks :
         /\ rl_pc[t] = "idle" =>
               \A d \in Domains, c \in Clients :
                   RL_Call(t, d, c) =>
                       IF /\ d \in DOMAIN domain_last_request
                          /\ clock - domain_last_request[d] < rate_limit_delay
                       THEN /\ rl_pc'[t] = "gate1"
                            /\ rl_result'[t] = "none"
                            /\ UNCHANGED <<Records, domain_last_request>>
                       ELSE rl_pc'[t] # "gate1"
         /\ (rl_pc[t] = "gate1" /\ rl_pc'[t] # "gate1") => clock >= rl_wake[t]
         /\ rl_result'[t] = "rejected" =>
               /\ rl_pc'[t] = "idle"
               /\ Decides(t) => global_requests' = global_requests
         /\ (rl_pc'[t] = "cooldown" /\ rl_pc[t] # "cooldown") =>
               /\ rl_result'[t] = "permitted"
               /\ global_requests' # <<>>
               /\ global_requests'[Len(global_requests')] \in {clock, rl_now[t]}
      ]_vars

\* C26 witness: a call that slept in gate 1 from time 0 was rejected when
\* its wait was over, after the two calls that fill the client's window
C26_Witness ==
    \E t, u \in Tasks, d \in Domains, c \in Clients :
        /\ t # u
        /\ rl_pc[t] = "idle"
        /\ rl_result[t] = "rejected"
        /\ rl_wait[t] = 10 * Window + 1
        /\ rl_result[u] = "permitted"
        /\ client_requests[c] = <<0, 0>>
        /\ \A x \in Clients \ {c} : client_requests[x] = <<>>
        /\ global_requests = <<0, 0>>
        /\ d \in DOMAIN domain_last_request
        /\ domain_last_request[d] = rate_limit_delay

\* the last n entries of a sequence
LastN(q, n) == IF Len(q) <= n THEN q ELSE SubSeq(q, Len(q) - n + 1, Len(q))

Asleep(t) == rl_pc[t] \in {"gate1", "cooldown"}

\* C28: every call of check_rate_limit comes to an end.  It asks for a
\* sleep of at most rate_limit_delay in gate 1 and of OverloadDelay in gate
\* 3, nothing else suspends it, and once the time it asked for has passed
\* it can be resumed whatever the other tasks do.
C28_CallTerminates ==
    /\ \A t \in Tasks : Asleep(t) ~> (rl_pc[t] = "idle")
    /\ [](\A t \in Tasks :
            (Asleep(t) /\ clock >= rl_wake[t])
                => ENABLED (RL_Wake1(t) \/ RL_Wake3(t)))
    /\ [][\A t \in Tasks :
            /\ (rl_pc[t] = "idle" /\ rl_pc'[t] = "gate1") =>
                  /\ rl_wake'[t] > clock
                  /\ rl_wake'[t] <= clock + rate_limit_delay
            /\ (rl_pc[t] # "cooldown" /\ rl_pc'[t] = "cooldown") =>
                  rl_wake'[t] = clock + OverloadDelay
            /\ rl_pc[t] = "cooldown" => rl_pc'[t] \in {"cooldown", "idle"}
            /\ rl_pc[t] = "gate1" => rl_pc'[t] \in {"gate1", "cooldown", "idle"}
         ]_vars

\* C28 witness: a call made at the last moment slept in gate 1 and is now
\* in the cooldown of gate 3, with the time for both sleeps passed
C28_Witness ==
    \E t \in Tasks :
        /\ rl_pc[t] = "cooldown"
        /\ clock = Horizon + rate_limit_delay + OverloadDelay
        /\ clock = rl_wake[t]

\* ------------------------------------------- claims: CacheManager, keys
\* two mappings hold the same key/value pairs
SamePairs(m1, m2) == Range(m1) = Range(m2)

\* C29: calls of _make_key with the same prefix and with mappings that
\* hold the same key/value pairs, in whatever order, return the same key;
\* calls with different prefixes return different keys.
C29_KeyOrderInsensitive ==
    \A x, y \in key_calls :
        /\ (x[1] = y[1] /\ SamePairs(x[2], y[2])) => x[3] = y[3]
        /\ x[1] # y[1] => x[3] # y[3]

\* C29 witness: a key was made for a mapping of two pairs and for the
\* same pairs in the other order, and keys were made for the same mapping
\* under two prefixes
C29_Witness ==
    \E x, y, z \in key_calls :
        /\ x[1] = y[1]
        /\ Len(x[2]) = 2
        /\ x[2] # y[2]
        /\ SamePairs(x[2], y[2])
        /\ z[1] # x[1]
        /\ z[2] = x[2]

\* ------------------------------------------ claims: navigate endpoints
\* what a handler may have done, in order, by the time its request is over
FullLogs ==
    { <<"check", "rejected">>,
      <<"check", "checked", "acquire", "failed">>,
      <<"check", "checked", "acquire", "acquired", "action_failed", "released">>,
      <<"check", "checked", "acquire", "acquired", "action", "released">>,
      <<"check", "checked", "acquire", "acquired", "action", "released",
        "cache_set">> }

IsPrefix(a, b) == Len(a) <= Len(b) /\ SubSeq(b, 1, Len(a)) = a

LongestLog ==
    CHOOSE l \in FullLogs : \A m \in FullLogs : Len(m) <= Len(l)

\* request r is known to the pool: inside acquire or release, holding a
\* session, or at the pool lock
InPool(r) == pc[r] # "idle" \/ AtLock(r) \/ ref[r] # None

\* C30: a request is known to the pool only once its check_rate_limit
\* call has returned permitted; a request whose check was rejected has
\* acquired nothing, run nothing and written nothing to the cache; what a
\* handler does is in the order check, acquire, action, release, cache
\* set, the release being complete when the cache is written; and the
\* cache is written by nothing but a handler that has released.
C30_CheckFirst ==
    /\ [](\A r \in Requests :
            /\ \E l \in FullLogs : IsPrefix(nav_log[r], l)
            /\ InPool(r) =>
                  /\ rl_pc[r] = "idle"
                  /\ rl_result[r] = "permitted"
                  /\ IsPrefix(<<"check", "checked", "acquire">>, nav_log[r])
            /\ (nav_log[r] # <<>> /\ Last(nav_log[r]) \in {"released", "cache_set"})
                  => ~InPool(r))
    /\ [][\A r \in Requests :
            /\ (nav_log'[r] # nav_log[r] /\ Last(nav_log'[r]) = "rejected")
                  => UNCHANGED <<poolVars, cacheVars>>
            /\ (nav_log'[r] = nav_log[r] /\ nav_log[r] # <<>>
                  /\ Last(nav_log[r]) \in {"check", "rejected"})
                  => UNCHANGED <<pc[r], ref[r], tab_info[r]>>
         ]_vars
    /\ [][(memory_cache' # memory_cache \/ last_set' # last_set
             \/ redis_store' # redis_store) =>
            \E r \in Requests :
                /\ nav_ep[r] = "navigate_with_all"
                /\ Last(nav_log[r]) = "released"
                /\ "action" \in Range(nav_log[r])
                /\ nav_log'[r] = nav_log[r] \o <<"cache_set">>
                /\ DOMAIN memory_cache' = DOMAIN memory_cache \cup {NavKey(nav_url[r])}
         ]_vars

\* C30 witness: one request has gone all the way to the cache, and
\* another, for the same url, has been rejected with nothing acquired
C30_Witness ==
    \E r, s \in Requests :
        /\ Last(LongestLog) = "cache_set"
        /\ nav_log[r] = LongestLog
        /\ nav_log[s] = <<"check", "rejected">>
        /\ nav_url[r] = nav_url[s]
        /\ NavKey(nav_url[r]) \in DOMAIN memory_cache
        /\ ~InPool(s)

\* -------------------------------------- claims: RateLimiter, the window
\* C31 (as claimed): the window of every client is in non-decreasing order
\* of its timestamps in every reachable state, so that pruning from the
\* front removes every expired entry.
C31_WindowInOrder ==
    \A c \in Clients :
        \A i, j \in 1..Len(client_requests[c]) :
            i < j => client_requests[c][i] <= client_requests[c][j]

\* ------------------------------------- claims: CacheManager, overwrite
\* C32 (as claimed): once set(key, v2) has returned, a get of the key
\* before the entry's expiry returns v2, and no get returns a value that
\* an earlier set of the key stored, whatever the external tier did with
\* the write of v2.
C32_GetReturnsLastSet ==
    [][\A k \in CacheKeys, o \in RedisOutcomes :
         (CacheGet(k, o) /\ k \in DOMAIN last_set) =>
             /\ cache_returned' \in {last_set[k][1], Absent}
             /\ clock - last_set[k][2] < last_set[k][3]
                   => cache_returned' = last_set[k][1]
      ]_vars

\* ------------------------------------ claims: BrowserManager, shutdown
\* C33 (as claimed): a session whose tab a cleanup has closed is never
\* returned by a later acquire, whether a lease that was in flight during
\* the cleanup is released afterwards or the browser has been started
\* again.
C33_ClosedNeverReturned ==
    [][\A p \in Callers :
          (pc[p] # "holding" /\ pc'[p] = "holding") => ref'[p] \notin cleaned
      ]_vars

\* ------------------------------------- claims: BrowserManager, start-up
\* close_browser has not been called
NeverClosed == close_pc = "idle" /\ cleanups = 0

\* C38: however concurrent calls of get_tab interleave, at most one of them
\* is starting a browser at a time and, as long as close_browser has not
\* been called, at most one instance has been started; a tab is created
\* only when the pool has been given the instance the manager holds, and
\* that instance is running.
C38_OneBrowserPoolInitialized ==
    /\ [](/\ Cardinality({p \in Callers : pc[p] = "gb_start"}) <= 1
          /\ NeverClosed => next_browser <= 1)
    /\ [][next_tab' # next_tab =>
             /\ browser # None
             /\ pool_browser = browser
             /\ browser_state[browser] = "running"]_vars

\* C38 witness: one request is creating a tab in the instance it started
\* while another, which called get_tab during the start, is entering
\* get_browser
C38_Witness ==
    \E p, q \in Callers :
        /\ NeverClosed
        /\ pc[p] = "acq_create_exc"
        /\ pc[q] = "gb_lock"
        /\ mgr_lock_owner = q
        /\ next_browser = 1

\* --------------------------------------- claims: the leasing operations
\* C35 (as claimed): every page action of a request on a session happens
\* while the request holds the lease on it; click_element in particular
\* clicks an element of a tab only while it holds that tab's session.
C35_ActsUnderLease ==
    [][\A p \in Callers, o \in {"ok", "error"} :
          /\ ReqAction(p, o) => (ref[p] \in in_use_tabs /\ pc[p] = "holding")
          /\ ReqClick(p, o) =>
                (element[p] \in in_use_tabs /\ ref[p] = element[p])
      ]_vars

\* the request of caller p ends in this step
Ends(p) == req[p] # "none" /\ req'[p] = "none"

\* C34: a request of navigate, navigate_with_pool, find_element,
\* click_element or extract_content calls release_tab at most once, for the
\* session it was handed; when it ends, whether its page action answered
\* or raised, it has called release_tab once if it was handed a session
\* and not at all if it was not; when no request is in progress the leased
\* set is empty.
C34_ReleasedOnce ==
    /\ [](/\ \A p \in Callers : rel_calls[p] <= acquired[p] /\ acquired[p] <= 1
          /\ (\A p \in Callers : req[p] = "none") => in_use_tabs = {})
    /\ [][\A p \in Callers : Ends(p) => rel_calls[p] = acquired[p]]_vars

\* C34 witness: the page action of a find_element request has raised (no
\* element is returned) and the release its finally clause called is
\* running, while another request holds a session
C34_Witness ==
    \E p, q \in Callers :
        /\ req[p] = "find_element"
        /\ pc[p] = "rel_eval2"
        /\ element[p] = None
        /\ acquired[p] = 1
        /\ rel_calls[p] = 1
        /\ pc[q] = "holding"

\* ------------------------------------ claims: CacheManager, the patterns
\* a prefix followed by '*'
IsPrefixPattern(pattern) ==
    /\ pattern # <<>>
    /\ pattern[Len(pattern)] = "*"
    /\ \A i \in 1..(Len(pattern) - 1) : pattern[i] # "*"

\* C36 (as claimed): clear_pattern called with a prefix pattern leaves
\* every entry of the memory tier whose key does not match the pattern in
\* place, with its value and its timestamp.
C36_ClearKeepsOthers ==
    [][\A pattern \in Patterns, o \in RedisOutcomes :
         (IsPrefixPattern(pattern) /\ CacheClearPattern(pattern, o)) =>
             \A k \in DOMAIN memory_cache :
                 ~GlobMatch(pattern, k) =>
                     /\ k \in DOMAIN memory_cache'
                     /\ memory_cache'[k] = memory_cache[k]
      ]_vars

\* ------------------------------------------ claims: the cached decorator
\* C37 (as claimed): of the calls of a cached method with the same
\* arguments made within the ttl, one after the other or overlapping, at
\* most one executes the wrapped function: two executions for the same
\* arguments are at least the ttl apart.
C37_ExecutesOnce ==
    \A a \in WrapperArgs :
        \A i, j \in 1..Len(wr_runs[a]) :
            i < j => wr_runs[a][j] - wr_runs[a][i] >= cache_ttl

====
